---- MODULE Spec2Model ----
(***************************************************************************)
(* Model of tools/ipptransform.c (pickware/ippsample): the page encoding   *)
(* pipeline of ipptransform.  The file is built with HAVE_COREGRAPHICS     *)
(* defined (line 11), so the CoreGraphics xform_document (lines 1515-2090) *)
(* is the one that is modelled.                                            *)
(*                                                                         *)
(* The module holds one state machine for a whole job (Spec) and several   *)
(* small specifications that apply one function of the program to inputs   *)
(* drawn from bounded sets (SpecRLE, SpecBand, SpecDither, SpecBack).      *)
(***************************************************************************)
EXTENDS Integers, Sequences, FiniteSets, TLC

VARIABLES
  \* The function-level specifications.
  fn,      \* which function the specification applies ("job": none)
  fpc,     \* "ready" before it has been applied, "done" after
  arg,     \* its input
  res,     \* its result (<<>> until it has been applied)
  \* The job: one call of xform_document.
  pc,             \* where xform_document is
  job,            \* its arguments, options, environment and document
  ras,            \* xform_raster_t ras
  copy,           \* the locals of xform_document ...
  page,
  y,
  band_starty,
  band_endy,
  back_transform,
  impressions,
  media_sheets,
  band_buffer,    \* ras.band_buffer: band_height rows of band_size bytes
  sink,           \* what has been written through the write callback, in order
  calls,          \* the backend and renderer calls made, in order
  ctm,            \* the page and the transforms of the last band rendered
  err,            \* the ERROR xform_setup has reported (NULL_ERR: none)
  status          \* the value returned (RUNNING until it returns)

fnVars == <<fn, fpc, arg, res>>

loopVars == <<copy, page, y, band_starty, band_endy>>

jobVars == <<pc, job, ras, copy, page, y, band_starty, band_endy,
             back_transform, impressions, media_sheets, band_buffer,
             sink, calls, ctm, err, status>>

vars == <<fn, fpc, arg, res, pc, job, ras, copy, page, y, band_starty,
          band_endy, back_transform, impressions, media_sheets,
          band_buffer, sink, calls, ctm, err, status>>

\* status is empty until xform_document returns, then <<its return value>>.
RUNNING == <<>>

Returned(v) == <<v>>

NULL_ERR == "no error"

\* The job variables of a function-level specification: no job is run.
NoJob ==
  /\ pc = "none" /\ job = <<>> /\ ras = <<>>
  /\ copy = 0 /\ page = 0 /\ y = 0 /\ band_starty = 0 /\ band_endy = 0
  /\ back_transform = <<>> /\ impressions = 0 /\ media_sheets = 0
  /\ band_buffer = <<>> /\ sink = <<>> /\ calls = <<>> /\ ctm = <<>>
  /\ err = NULL_ERR /\ status = RUNNING

-----------------------------------------------------------------------------
(* Bounds of the model.                                                    *)

\* Longest line enumerated byte by byte for the compression.
MaxShort == 4

\* Most segments (constant runs, alternating runs) a long line is made of.
MaxSegs == 2

\* Largest page width and height, in pixels, the band sizing is applied to.
MaxBandWidth == 5
MaxBandHeight == 6

\* Largest value of IPPTRANSFORM_MAX_RASTER the band sizing is applied to.
MaxBudget == 40

\* The dithered rows and left margins are 64 * b + o for b in 0..MaxBlocks.
MaxBlocks == 1

\* Every line width from 1 to MaxDitherWidth pixels is dithered.
MaxDitherWidth == 9

\* Most pages of a document.
MaxPages == 3

\* Most copies of a job (the "copies" option).
MaxCopies == 2

\* Largest page height of a job, in lines.
MaxJobHeight == 5

-----------------------------------------------------------------------------
(* pcl_write_line, lines 1189-1247: PackBits compression of the packed     *)
(* line out_buffer[0 .. outend) into comp_buffer.  Sequences are 1-based,  *)
(* so the C pointer outptr is the index p = outptr - out_buffer + 1 and    *)
(* "outptr < outend - 1" reads "p < Len(out)".                             *)

\* The most bytes one record covers: the "count < 127" of both inner loops.
PCL_MAX_RUN == 127

\* unsigned char conversion of a value stored into the compression buffer.
UChar(v) == v % 256

RepeatControlOff(count) == UChar(256 - count)

\* Line 1221: the control byte of a repeated sequence.
RepeatControl(count) == UChar(257 - count)

\* Line 1242: the control byte of a non-repeated sequence.
LiteralControl(count) == UChar(count - 1)

RECURSIVE RepeatLoop(_, _, _)
\* Lines 1213-1219: the inner loop of a repeated sequence; q is outptr.
RepeatLoop(out, q, count) ==
  IF q < Len(out) /\ out[q] = out[q + 1] /\ count < PCL_MAX_RUN
  THEN RepeatLoop(out, q + 1, count + 1)
  ELSE count

RECURSIVE LiteralLoopToEnd(_, _, _)
LiteralLoopToEnd(out, q, count) ==
  IF q <= Len(out) /\ (q = Len(out) \/ out[q] # out[q + 1]) /\ count < PCL_MAX_RUN
  THEN LiteralLoopToEnd(out, q + 1, count + 1)
  ELSE count

RECURSIVE LiteralLoop(_, _, _)
\* Lines 1234-1240: the inner loop of a non-repeated sequence.
LiteralLoop(out, q, count) ==
  IF q < Len(out) /\ out[q] # out[q + 1] /\ count < PCL_MAX_RUN
  THEN LiteralLoop(out, q + 1, count + 1)
  ELSE count

RECURSIVE CompressFrom(_, _, _)
\* Lines 1193-1247: the outer loop; p is outptr, comp the bytes written to
\* comp_buffer so far.
CompressFrom(out, p, comp) ==
  IF ~(p <= Len(out)) THEN comp
  ELSE IF p + 1 > Len(out)
  THEN \* Single byte on the end (lines 1201-1202)
       CompressFrom(out, p + 1, comp \o <<0, out[p]>>)
  ELSE IF out[p] = out[p + 1]
  THEN \* Repeated sequence (lines 1210-1222)
       LET count == RepeatLoop(out, p + 1, 2)
           q     == p + count - 1
       IN  CompressFrom(out, q + 1, comp \o <<RepeatControl(count), out[q]>>)
  ELSE \* Non-repeated sequence (lines 1230-1245)
       LET count == LiteralLoop(out, p + 1, 1)
       IN  CompressFrom(out, p + count,
                        comp \o <<LiteralControl(count)>>
                             \o SubSeq(out, p, p + count - 1))

\* Lines 1189-1247: comp_buffer[0 .. compptr) for the packed line out.
PclCompress(out) == CompressFrom(out, 1, <<>>)

-----------------------------------------------------------------------------
(* The PackBits decoder of the receiving device, as the specification      *)
(* states it: a control byte c >= 130 followed by b is 257-c copies of b;  *)
(* a control byte c <= 126 is followed by c+1 literal bytes.  BAD marks a  *)
(* stream no such decoder accepts.                                         *)

BAD == <<"bad">>

RECURSIVE DecodeFrom(_, _, _)
DecodeFrom(comp, i, acc) ==
  IF i > Len(comp) THEN acc
  ELSE LET c == comp[i] IN
       IF c >= 130
       THEN IF i + 1 > Len(comp) THEN BAD
            ELSE DecodeFrom(comp, i + 2, acc \o [k \in 1..(257 - c) |-> comp[i + 1]])
       ELSE IF c <= 126
       THEN IF i + c + 1 > Len(comp) THEN BAD
            ELSE DecodeFrom(comp, i + c + 2, acc \o SubSeq(comp, i + 1, i + c + 1))
       ELSE BAD

PackBitsDecode(comp) == DecodeFrom(comp, 1, <<>>)

-----------------------------------------------------------------------------
(* SpecRLE: the compression applied to packed lines.  The lines are every  *)
(* line of up to MaxShort bytes over ShortBytes, and every line made of up *)
(* to MaxSegs segments, each a constant run or an alternating run whose    *)
(* length is one of SegLens (so that lines of 127, 128, 254 and 255 bytes, *)
(* and runs that cross the 127 cap, all occur).                            *)

ShortBytes == {0, 1, 255}

SegLens == {1, 127, 128, 255}

SegBytes == {0, 255}

ShortLines == UNION {[1..n -> ShortBytes] : n \in 0..MaxShort}

Segment(kind, b, n) ==
  [i \in 1..n |-> IF kind = "run" \/ i % 2 = 1 THEN b ELSE 255 - b]

Segments == {Segment(k, b, n) : k \in {"run", "alt"}, b \in SegBytes, n \in SegLens}

RECURSIVE SegLines(_)
SegLines(n) ==
  IF n = 0 THEN {<<>>}
  ELSE LET shorter == SegLines(n - 1)
       IN  shorter \cup {l \o s : l \in shorter, s \in Segments}

PackedLines == ShortLines \cup SegLines(MaxSegs)

InitRLE ==
  /\ fn = "compress"
  /\ fpc = "ready"
  /\ NoJob
  /\ arg \in PackedLines
  /\ res = <<>>

Compress ==
  /\ fn = "compress" /\ fpc = "ready"
  /\ res' = PclCompress(arg)
  /\ fpc' = "done"
  /\ UNCHANGED <<fn, arg>>
  /\ UNCHANGED jobVars

NextRLE == Compress

SpecRLE == InitRLE /\ [][NextRLE]_vars

\* C1: decoding what pcl_write_line puts in the compression buffer gives
\* back the packed line, byte for byte, whatever its length.
RLERoundTrip ==
  (fn = "compress" /\ fpc = "done") => PackBitsDecode(res) = arg

\* A line of 255 bytes whose first 128 bytes are one run has been compressed.
RLEWitness ==
  /\ fn = "compress" /\ fpc = "done"
  /\ Len(arg) = 255
  /\ \A i \in 1..128 : arg[i] = arg[1]

-----------------------------------------------------------------------------
(* The print box of ras (left, top, right, bottom, line 94) and its        *)
(* band_height are unsigned, 32 bits wide.  Such a value is held as        *)
(* <<high, low>>, its two 16-bit halves, and the operators below are the C *)
(* ones, modulo 2^32.                                                      *)

U32(n) == <<n \div 65536, n % 65536>>

UAdd(a, b) ==
  LET lo == a[2] + b[2]
  IN  <<(a[1] + b[1] + lo \div 65536) % 65536, lo % 65536>>

USub(a, b) ==
  LET lo     == a[2] - b[2]
      borrow == IF lo < 0 THEN 1 ELSE 0
  IN  <<(a[1] - b[1] - borrow) % 65536, lo % 65536>>

\* a / k for a divisor k below 2^15.
UDiv(a, k) ==
  <<a[1] \div k, ((a[1] % k) * 65536 + a[2]) \div k>>

ULess(a, b) == a[1] < b[1] \/ (a[1] = b[1] /\ a[2] < b[2])

ULessEq(a, b) == a = b \/ ULess(a, b)

\* The number an unsigned value stands for.
UInt(a) == a[1] * 65536 + a[2]

\* A size_t or long value, 64 bits wide, is held as its four 16-bit parts,
\* the most significant first.  Size(high, low) is high * 2^32 + low.
Size(high, low) ==
  <<high \div 65536, high % 65536, low \div 65536, low % 65536>>

\* a / k on size_t, for a divisor k below 2^15: the long division of the
\* four parts.
SizeDiv(a, k) ==
  LET c2 == (a[1] % k) * 65536 + a[2]
      c3 == (c2 % k) * 65536 + a[3]
      c4 == (c3 % k) * 65536 + a[4]
  IN  <<a[1] \div k, c2 \div k, c3 \div k, c4 \div k>>

\* a % k on size_t, for a divisor k below 2^15.
SizeRem(a, k) ==
  LET c2 == (a[1] % k) * 65536 + a[2]
      c3 == (c2 % k) * 65536 + a[3]
  IN  ((c3 % k) * 65536 + a[4]) % k

-----------------------------------------------------------------------------
(* xform_document, lines 1655-1711: the band geometry.                     *)

\* Line 39.
XFORM_MAX_RASTER == 16777216

\* Lines 1655-1698: bytes per pixel of the band buffer.
BandBpp(cupsBitsPerPixel) ==
  IF cupsBitsPerPixel <= 8 THEN 1
  ELSE IF cupsBitsPerPixel = 24 THEN 4
  ELSE IF cupsBitsPerPixel = 32 THEN 4
  ELSE 8

\* Lines 1700-1703: env is the IPPTRANSFORM_MAX_RASTER variable, [set,
\* high, val], where strtol returns high * 2^32 + val for it (a long of 64
\* bits; val is below 2^31, and high is 0 when val is negative).
MaxRaster(env) ==
  IF env.set /\ (env.high > 0 \/ env.val > 0) THEN Size(env.high, env.val)
  ELSE Size(0, XFORM_MAX_RASTER)

\* Line 1705.
BandSize(cupsWidth, band_bpp) == cupsWidth * band_bpp

BandHeightCeil(max_raster, band_size, cupsHeight) ==
  LET d == SizeDiv(max_raster, band_size)
      q == <<d[3], d[4]>>
      h == IF SizeRem(max_raster, band_size) = 0 THEN q ELSE UAdd(q, U32(1))
  IN  IF ULess(h, U32(1)) THEN 1
      ELSE IF ULess(U32(cupsHeight), h) THEN cupsHeight
      ELSE UInt(h)

\* Lines 1706-1709: the quotient q, a size_t, is converted to unsigned,
\* which keeps its low 32 bits, and then raised to 1 or lowered to
\* cupsHeight.
BandHeight(max_raster, band_size, cupsHeight) ==
  LET q == SizeDiv(max_raster, band_size)
      h == <<q[3], q[4]>>
  IN  IF ULess(h, U32(1)) THEN 1
      ELSE IF ULess(U32(cupsHeight), h) THEN cupsHeight
      ELSE UInt(h)

\* Line 1711: the size of the band buffer that is allocated.
BandAlloc(band_height, band_size) == band_height * band_size

-----------------------------------------------------------------------------
(* SpecBand: the band geometry for page widths, heights, pixel sizes and   *)
(* memory budgets drawn from bounded sets.                                 *)

PixelBits == {1, 8, 24, 32, 48}

\* IPPTRANSFORM_MAX_RASTER: unset, -1 .. MaxBudget, and budgets of 2^32
\* bytes and more.
RasterEnvs ==
  {[set |-> FALSE, high |-> 0, val |-> 0]}
    \cup {[set |-> TRUE, high |-> 0, val |-> v] : v \in (-1)..MaxBudget}
    \cup {[set |-> TRUE, high |-> h, val |-> v] : h \in {1, 5}, v \in {0, 3, 17}}

InitBand ==
  /\ fn = "band"
  /\ fpc = "ready"
  /\ NoJob
  /\ arg \in [cupsWidth : 1..MaxBandWidth, cupsHeight : 1..MaxBandHeight,
              cupsBitsPerPixel : PixelBits, env : RasterEnvs]
  /\ res = <<>>

SizeBand ==
  /\ fn = "band" /\ fpc = "ready"
  /\ LET max_raster  == MaxRaster(arg.env)
         band_size   == BandSize(arg.cupsWidth, BandBpp(arg.cupsBitsPerPixel))
         band_height == BandHeight(max_raster, band_size, arg.cupsHeight)
     IN  res' = [max_raster |-> max_raster, band_size |-> band_size,
                 band_height |-> band_height,
                 alloc |-> BandAlloc(band_height, band_size)]
  /\ fpc' = "done"
  /\ UNCHANGED <<fn, arg>>
  /\ UNCHANGED jobVars

NextBand == SizeBand

SpecBand == InitBand /\ [][NextBand]_vars

BandDone == fn = "band" /\ fpc = "done"

\* n bytes are within the budget: n <= max_raster, part by part.
SizeLessEq(a, b) ==
  \/ a = b
  \/ \E k \in 1..4 : a[k] < b[k] /\ \A i \in 1..(k - 1) : a[i] = b[i]

WithinBudget(n) == SizeLessEq(Size(0, n), res.max_raster)

\* C3 as stated: the band buffer never exceeds the memory budget.
BandNeverExceedsBudget ==
  BandDone => WithinBudget(res.alloc)

\* C3, amended: the band buffer does not exceed the memory budget whenever
\* one scanline fits in the budget; when one scanline does not fit, the band
\* is exactly that one scanline.
BandWithinBudgetOrOneLine ==
  BandDone =>
    /\ WithinBudget(res.band_size) => WithinBudget(res.alloc)
    /\ ~WithinBudget(res.band_size) => res.alloc = res.band_size

\* The budget binds: several scanlines fit, but not the whole page.
BandBudgetWitness ==
  /\ BandDone
  /\ WithinBudget(res.band_size)
  /\ res.band_height > 1 /\ res.band_height < arg.cupsHeight

Max2(a, b) == IF a >= b THEN a ELSE b
Min2(a, b) == IF a <= b THEN a ELSE b

\* floor(budget / bytes per scanline) >= n, without dividing.
LinesInBudget(n) == WithinBudget(n * res.band_size)

\* max(1, min(page_height, floor(budget / bytes per scanline))): the
\* largest height of at most page_height lines that the budget holds, and 1
\* when it holds none.
FormulaHeight ==
  Max2(1, CHOOSE h \in 0..arg.cupsHeight :
            /\ LinesInBudget(h)
            /\ \A g \in (h + 1)..arg.cupsHeight : ~LinesInBudget(g))

\* C4: band_height = max(1, min(page_height, floor(budget / bytes per
\* scanline))) for every page height, scanline size and budget, and so is
\* never 0.
BandHeightFormula ==
  BandDone =>
    /\ res.band_height = FormulaHeight
    /\ res.band_height >= 1

\* The quotient budget / bytes per scanline is below 2^32.
QuotientFitsUnsigned ==
  LET q == SizeDiv(res.max_raster, res.band_size)
  IN  q[1] = 0 /\ q[2] = 0

\* What holds: the band height is never 0 and never above the page height,
\* and it is the value of the formula whenever the quotient is below 2^32;
\* a larger quotient is first reduced modulo 2^32, and the band is then no
\* higher than the formula says.
BandHeightFormulaModulo ==
  BandDone =>
    /\ res.band_height >= 1
    /\ res.band_height <= arg.cupsHeight
    /\ res.band_height <= FormulaHeight
    /\ QuotientFitsUnsigned => res.band_height = FormulaHeight

\* One scanline is larger than the budget and the band is one scanline.
BandFloorWitness ==
  /\ BandDone
  /\ ~WithinBudget(res.band_size)
  /\ res.band_height = 1

-----------------------------------------------------------------------------
(* The dither array ras->dither, set by xform_setup (lines 2640 and        *)
(* 2964-2970): all 0 after the memset of the whole structure, all 127 for  *)
(* bi-level output, a copy of the threshold table of dither.h otherwise.   *)

\* dither.h is not among the sources: its 64 x 64 table of values in
\* 0..255 is represented by this function of the row and the column.
threshold(r, c) == (r * 37 + c * 101 + 11) % 256

DitherKinds == {"zero", "flat", "threshold"}

\* ras->dither[r][c] for r, c in 0..63.
DitherAt(kind, r, c) ==
  IF kind = "zero" THEN 0
  ELSE IF kind = "flat" THEN 127
  ELSE threshold(r, c)

-----------------------------------------------------------------------------
(* The dithering loops of pcl_write_line (lines 1164-1183) and of          *)
(* raster_write_line (lines 1392-1431).                                    *)

RasterCompareAlwaysLE(cupsColorSpace) == "le"

\* Line 1395: raster_write_line compares with > for CUPS_CSPACE_SW and
\* with <= for every other colour space.
RasterCompare(cupsColorSpace) ==
  IF cupsColorSpace = "SW" THEN "gt" ELSE "le"

\* Line 1169: pcl_write_line compares with <=, whatever the colour space.
PclCompare(cupsColorSpace) == "le"

\* Lines 1169, 1399, 1416: whether the pixel's bit is set.
PixelSet(cmp, sample, T) ==
  IF cmp = "gt" THEN sample > T ELSE sample <= T

\* byte |= bit.
BitOr(byte, bit) ==
  IF (byte \div bit) % 2 = 1 THEN byte ELSE byte + bit

RECURSIVE DitherLoop(_, _, _, _, _, _, _, _)
\* The for loop: dy is y after "y &= 63", x the column, i the index of
\* *line (1-based), st the
\* locals bit and byte and the bytes stored through outptr.
DitherLoop(cmp, kind, dy, right, line, x, i, st) ==
  IF ~(x < right) THEN st
  ELSE LET byte == IF PixelSet(cmp, line[i], DitherAt(kind, dy, x % 64))
                   THEN BitOr(st.byte, st.bit) ELSE st.byte
       IN  IF st.bit = 1
           THEN DitherLoop(cmp, kind, dy, right, line, x + 1, i + 1,
                           [bit |-> 128, byte |-> 0, out |-> Append(st.out, byte)])
           ELSE DitherLoop(cmp, kind, dy, right, line, x + 1, i + 1,
                           [bit |-> st.bit \div 2, byte |-> byte, out |-> st.out])

DitherLineNoFlush(cmp, kind, ly, left, right, line) ==
  DitherLoop(cmp, kind, ly % 64, right, line, left, 1,
             [bit |-> 128, byte |-> 0, out |-> <<>>]).out

\* "y &= 63", the loop, and the flush of a partial last byte (lines
\* 1182-1183, 1430-1431): the bytes stored in out_buffer.
DitherLine(cmp, kind, ly, left, right, line) ==
  LET st == DitherLoop(cmp, kind, ly % 64, right, line, left, 1,
                       [bit |-> 128, byte |-> 0, out |-> <<>>])
  IN  IF st.bit # 128 THEN Append(st.out, st.byte) ELSE st.out

\* The comparison each backend's write_line uses.
BackendCompare(backend, cupsColorSpace) ==
  IF backend = "pcl" THEN PclCompare(cupsColorSpace)
  ELSE RasterCompare(cupsColorSpace)

-----------------------------------------------------------------------------
(* The blank test and the output buffer of a PCL page.                     *)

\* Line 1121 (pcl_start_page): out_length = (right - left + 7) / 8, on
\* unsigned fields: when right is below left the difference wraps.
PclOutLength(left, right) ==
  UInt(UDiv(UAdd(USub(U32(right), U32(left)), U32(7)), 8))

PclBlankAnyByte(r, line) ==
  \A i \in 1..(UInt(USub(r.right, r.left)) - 1) : line[i] = line[i + 1]

\* Lines 1150-1158: the blank test of pcl_write_line.
PclBlank(r, line) ==
  /\ line[1] = 255
  /\ \A i \in 1..(UInt(USub(r.right, r.left)) - 1) : line[i] = line[i + 1]

-----------------------------------------------------------------------------
(* SpecDither: one line dithered by either backend.  The PCL print box     *)
(* starts at a left margin (pcl_start_page), the raster one at column 0    *)
(* (raster_start_page, line 1347).                                         *)

DitherOffsets == {0, 1, 63}

DitherCoords == {64 * b + o : b \in 0..MaxBlocks, o \in DitherOffsets}

DitherWidths == (1..MaxDitherWidth) \cup {66}

DitherSamples == {0, 11, 127, 128, 255}

\* A line of n samples: the same sample throughout, or a ramp from it.
SampleLine(shape, s, n) ==
  [i \in 1..n |-> IF shape = "flat" THEN s ELSE (s + 37 * (i - 1)) % 256]

DitherArgs ==
  {a \in [backend : {"pcl", "raster"}, cupsColorSpace : {"SW", "K"},
          dither : DitherKinds, y : DitherCoords,
          left : {0, 1, 63}, n : DitherWidths,
          shape : {"flat", "ramp"}, s : DitherSamples] :
     (a.backend = "raster") <=> (a.left = 0)}

InitDither ==
  /\ fn = "dither"
  /\ fpc = "ready"
  /\ NoJob
  /\ arg \in DitherArgs
  /\ res = <<>>

\* Lines 1150-1158: whether pcl_write_line takes the line for blank and
\* returns before the dithering loop; raster_write_line has no such test.
DitherSkips(a, left) ==
  /\ a.backend = "pcl"
  /\ PclBlank([left |-> U32(left), right |-> U32(left + a.n)],
              SampleLine(a.shape, a.s, a.n))

\* The bytes the call stores in out_buffer: none when the line is skipped.
DitherOf(a, ly, left) ==
  IF DitherSkips(a, left) THEN <<>>
  ELSE DitherLine(BackendCompare(a.backend, a.cupsColorSpace), a.dither, ly,
                  left, left + a.n, SampleLine(a.shape, a.s, a.n))

\* Lines 1164-1183 and 1392-1431: the line is dithered.
Dither ==
  /\ fn = "dither" /\ fpc = "ready"
  /\ ~DitherSkips(arg, arg.left)
  /\ res' = DitherOf(arg, arg.y, arg.left)
  /\ fpc' = "done"
  /\ UNCHANGED <<fn, arg>>
  /\ UNCHANGED jobVars

\* Lines 1150-1158: pcl_write_line counts the line as blank and returns;
\* out_buffer is not written.
DitherSkip ==
  /\ fn = "dither" /\ fpc = "ready"
  /\ DitherSkips(arg, arg.left)
  /\ res' = DitherOf(arg, arg.y, arg.left)
  /\ fpc' = "skipped"
  /\ UNCHANGED <<fn, arg>>
  /\ UNCHANGED jobVars

NextDither == Dither \/ DitherSkip

SpecDither == InitDither /\ [][NextDither]_vars

DitherDone == fn = "dither" /\ fpc = "done"

\* Bit 7 - (i mod 8) of byte i div 8 of the dithered line (i from 0).
OutBit(out, i) == (out[(i \div 8) + 1] \div (2 ^ (7 - (i % 8)))) % 2 = 1

\* The threshold the specification names for the pixel at column x of line y.
SpecThreshold(kind, ly, x) == DitherAt(kind, ly % 64, x % 64)

\* The sample of pixel i (from 0) of the dithered line.
SampleOf(a, i) == SampleLine(a.shape, a.s, a.n)[i + 1]

\* C9 as stated: on either backend the bit is set iff sample > T in the
\* white-is-high colour space and iff sample <= T otherwise.
DitherPolarityBothBackends ==
  DitherDone =>
    \A i \in 0..(arg.n - 1) :
      LET T == SpecThreshold(arg.dither, arg.y, arg.left + i)
      IN  OutBit(res, i) <=>
            IF arg.cupsColorSpace = "SW" THEN SampleOf(arg, i) > T
            ELSE SampleOf(arg, i) <= T

\* C9, amended: raster_write_line sets the bit iff sample > T in the
\* white-is-high colour space and iff sample <= T otherwise; pcl_write_line
\* sets it iff sample <= T in every colour space.  On both, T is
\* dither[y mod 64][x mod 64] and moving the line by 64 rows, or the print
\* box by 64 columns, gives the same bits.
DitherPolarityPerBackend ==
  DitherDone =>
    /\ \A i \in 0..(arg.n - 1) :
         LET T == SpecThreshold(arg.dither, arg.y, arg.left + i)
         IN  OutBit(res, i) <=>
               IF arg.backend = "raster" /\ arg.cupsColorSpace = "SW"
               THEN SampleOf(arg, i) > T
               ELSE SampleOf(arg, i) <= T
    /\ DitherOf(arg, arg.y + 64, arg.left) = res
    /\ DitherOf(arg, arg.y, arg.left + 64) = res

\* A white-is-high raster line that crosses column 64 and has both set and
\* clear bits has been dithered against the threshold table.
DitherWitness ==
  /\ DitherDone
  /\ arg.backend = "raster" /\ arg.cupsColorSpace = "SW"
  /\ arg.dither = "threshold" /\ arg.n > 64 /\ arg.y >= 64
  /\ \E i, j \in 0..(arg.n - 1) : OutBit(res, i) /\ ~OutBit(res, j)

-----------------------------------------------------------------------------
(* xform_setup, lines 2938-2949: the "sides" value and the Duplex and      *)
(* Tumble fields of the page header.  An absent option or environment      *)
(* variable (a NULL pointer) is the string "NULL".                         *)

NULL == "NULL"

\* Lines 2938-2944: sidesOpt is the "sides" option, sidesEnv the
\* IPP_SIDES_DEFAULT environment variable.
Sides(pages, sidesOpt, sidesEnv) ==
  IF pages = 1 THEN "one-sided"
  ELSE IF sidesOpt # NULL THEN sidesOpt
  ELSE IF sidesEnv # NULL THEN sidesEnv
  ELSE "one-sided"

\* Line 2949: cupsRasterInitPWGHeader (libcups) sets Duplex for both
\* two-sided values and Tumble for the short-edge one.
HeaderDuplex(sides) ==
  sides \in {"two-sided-long-edge", "two-sided-short-edge"}

HeaderTumble(sides) == sides = "two-sided-short-edge"

-----------------------------------------------------------------------------
(* xform_document, lines 1766-1787: the back side transform, as the six    *)
(* arguments of CGAffineTransformMake.  W and H are cupsPageSize[0..1].    *)

BackTransformSwapped(pages, sheet_back, Duplex, Tumble, W, H) ==
  IF pages > 1 /\ sheet_back # NULL /\ Duplex
  THEN IF sheet_back = "flipped"
       THEN IF Tumble THEN <<1, 0, 0, -1, 0, H>> ELSE <<-1, 0, 0, 1, W, 0>>
       ELSE IF sheet_back = "manual-tumble" /\ Tumble THEN <<-1, 0, 0, -1, W, H>>
       ELSE IF sheet_back = "rotated" /\ ~Tumble THEN <<-1, 0, 0, -1, W, H>>
       ELSE <<1, 0, 0, 1, 0, 0>>
  ELSE <<1, 0, 0, 1, 0, 0>>

BackTransform(pages, sheet_back, Duplex, Tumble, W, H) ==
  IF pages > 1 /\ sheet_back # NULL /\ Duplex
  THEN IF sheet_back = "flipped"
       THEN IF Tumble THEN <<-1, 0, 0, 1, W, 0>> ELSE <<1, 0, 0, -1, 0, H>>
       ELSE IF sheet_back = "manual-tumble" /\ Tumble THEN <<-1, 0, 0, -1, W, H>>
       ELSE IF sheet_back = "rotated" /\ ~Tumble THEN <<-1, 0, 0, -1, W, H>>
       ELSE <<1, 0, 0, 1, 0, 0>>
  ELSE <<1, 0, 0, 1, 0, 0>>

-----------------------------------------------------------------------------
(* SpecBack: the back side transform of a PDF job, for page counts, sides, *)
(* sheet_back values and page sizes drawn from bounded sets.               *)

SidesValues == {"one-sided", "two-sided-long-edge", "two-sided-short-edge"}

SheetBacks == {NULL, "normal", "flipped", "manual-tumble", "rotated"}

\* cupsPageSize of A4 and US Letter, in points.
PageSizes == {<<595, 842>>, <<612, 792>>}

InitBack ==
  /\ fn = "back"
  /\ fpc = "ready"
  /\ NoJob
  /\ arg \in [pages : 1..MaxPages, sidesOpt : SidesValues \cup {NULL},
              sidesEnv : {NULL, "two-sided-long-edge"},
              sheet_back : SheetBacks, cupsPageSize : PageSizes]
  /\ res = <<>>

ChooseBack ==
  /\ fn = "back" /\ fpc = "ready"
  /\ LET sides == Sides(arg.pages, arg.sidesOpt, arg.sidesEnv)
     IN  res' = [Duplex |-> HeaderDuplex(sides), Tumble |-> HeaderTumble(sides),
                 back_transform |->
                   BackTransform(arg.pages, arg.sheet_back, HeaderDuplex(sides),
                                 HeaderTumble(sides),
                                 arg.cupsPageSize[1], arg.cupsPageSize[2])]
  /\ fpc' = "done"
  /\ UNCHANGED <<fn, arg>>
  /\ UNCHANGED jobVars

NextBack == ChooseBack

SpecBack == InitBack /\ [][NextBack]_vars

BackDone == fn = "back" /\ fpc = "done"

\* C10: the back side transform for page size (W, H) is (-1,0,0,-1,W,H) for
\* "rotated" with tumble off and for "manual-tumble" with tumble on,
\* (-1,0,0,1,W,0) for "flipped" with tumble on, (1,0,0,-1,0,H) for "flipped"
\* with tumble off, and the identity in every other case, every job that is
\* not duplex included.
BackTransformTable ==
  BackDone =>
    LET W  == arg.cupsPageSize[1]
        H  == arg.cupsPageSize[2]
        sb == arg.sheet_back
        bt == res.back_transform
    IN  /\ (res.Duplex /\ sb = "rotated" /\ ~res.Tumble) => bt = <<-1, 0, 0, -1, W, H>>
        /\ (res.Duplex /\ sb = "manual-tumble" /\ res.Tumble) => bt = <<-1, 0, 0, -1, W, H>>
        /\ (res.Duplex /\ sb = "flipped" /\ res.Tumble) => bt = <<-1, 0, 0, 1, W, 0>>
        /\ (res.Duplex /\ sb = "flipped" /\ ~res.Tumble) => bt = <<1, 0, 0, -1, 0, H>>
        /\ ~( res.Duplex
              /\ \/ sb = "flipped"
                 \/ sb = "rotated" /\ ~res.Tumble
                 \/ sb = "manual-tumble" /\ res.Tumble )
             => bt = <<1, 0, 0, 1, 0, 0>>

\* A duplex, tumbled job with sheet_back "flipped" has its transform.
BackWitness ==
  /\ BackDone
  /\ res.Duplex /\ res.Tumble /\ arg.sheet_back = "flipped"
  /\ res.back_transform # <<1, 0, 0, 1, 0, 0>>

-----------------------------------------------------------------------------
(* xform_setup, lines 2610-2986.  An option is NULL when it is absent; an  *)
(* option read with atoi is [set, val], val being what atoi returns.       *)

CopiesAcceptAll(copies) == FALSE

\* Lines 2655-2668: the "copies" option.
CopiesError(copies) == copies.set /\ (copies.val < 1 \/ copies.val > 9999)

Copies(copies) == IF copies.set THEN copies.val ELSE 1

\* Lines 2674-2684 and 2742-2759: media is the "media" option and
\* media_default the IPP_MEDIA_DEFAULT variable, each NULL, "known" or
\* "unknown" according to what pwgMediaForPWG and pwgMediaForLegacy (libcups)
\* answer for it; without either, na_letter_8.5x11in is used.  (A job of the
\* model has no "media-col" option.)
MediaError(media, media_default) ==
  \/ media = "unknown"
  \/ media = NULL /\ media_default = "unknown"

\* cupsArrayIndex (libcups): element n of the array, from 0, or NULL.
ArrayIndex(a, n) == IF n >= 0 /\ n < Len(a) THEN a[n + 1] ELSE NULL

ArrayFind(a, v) == \E i \in 1..Len(a) : a[i] = v

\* Lines 56-58 of ipp.h (libcups): IPP_QUALITY_DRAFT, _NORMAL, _HIGH.
IPP_QUALITY_DRAFT == 3
IPP_QUALITY_NORMAL == 4
IPP_QUALITY_HIGH == 5

\* Lines 2774-2808: res_array is the array made of the supported
\* resolutions, printer_resolution and print_quality the options.
SelectResolution(res_array, printer_resolution, print_quality) ==
  LET explicit == IF printer_resolution # NULL /\ ~ArrayFind(res_array, printer_resolution)
                  THEN NULL ELSE printer_resolution
      byQuality ==
        IF explicit # NULL THEN explicit
        ELSE IF ~print_quality.set THEN NULL
        ELSE IF print_quality.val = IPP_QUALITY_DRAFT THEN ArrayIndex(res_array, 0)
        ELSE IF print_quality.val = IPP_QUALITY_NORMAL
             THEN ArrayIndex(res_array, Len(res_array) \div 2)
        ELSE IF print_quality.val = IPP_QUALITY_HIGH
             THEN ArrayIndex(res_array, Len(res_array) - 1)
        ELSE NULL
  IN  IF byQuality # NULL THEN byQuality
      ELSE ArrayIndex(res_array, Len(res_array) \div 2)

\* Lines 2783-2785: pq is read from "print-quality" only when no explicit
\* resolution has been kept.
QualityAfterResolution(res_array, printer_resolution, print_quality) ==
  IF (printer_resolution = NULL \/ ~ArrayFind(res_array, printer_resolution))
     /\ print_quality.set
  THEN print_quality.val ELSE IPP_QUALITY_NORMAL

\* Lines 2820-2831: sscanf of "NxMdpi" and "Ndpi"; <<>> when neither matches.
ParseResolution(r) ==
  IF r = "6dpi" THEN <<6, 6>>
  ELSE IF r = "12dpi" THEN <<12, 12>>
  ELSE IF r = "6x12dpi" THEN <<6, 12>>
  ELSE <<>>

\* Lines 2842-2853: the effect of print-color-mode on color and pq.
Monochromes == {"monochrome", "process-monochrome", "auto-monochrome"}
BiLevels == {"bi-level", "process-bi-level"}

ColorAfterModeKept(color, print_color_mode) ==
  IF print_color_mode \in BiLevels THEN FALSE ELSE color

ColorAfterMode(color, print_color_mode) ==
  IF print_color_mode \in Monochromes \cup BiLevels THEN FALSE ELSE color

QualityAfterMode(pq, print_color_mode) ==
  IF print_color_mode \in BiLevels THEN IPP_QUALITY_DRAFT ELSE pq

SelectTypeUnchecked(types, color, pq) ==
  IF color THEN (IF pq = IPP_QUALITY_HIGH THEN "adobe-rgb_16" ELSE "srgb_8")
  ELSE IF pq = IPP_QUALITY_DRAFT THEN "black_1"
  ELSE "black_8"

\* Lines 2858-2924 (the HAVE_COREGRAPHICS branches): types is the set of
\* supported types; NULL when none is usable.
SelectType(types, color, pq) ==
  LET t1 == IF color
            THEN LET hi == IF pq = IPP_QUALITY_HIGH
                           THEN IF "adobe-rgb_16" \in types THEN "adobe-rgb_16"
                                ELSE IF "adobe-rgb_8" \in types THEN "adobe-rgb_8"
                                ELSE NULL
                           ELSE NULL
                 IN  IF hi # NULL THEN hi
                     ELSE IF "srgb_8" \in types THEN "srgb_8"
                     ELSE IF "cmyk_8" \in types THEN "cmyk_8"
                     ELSE NULL
            ELSE NULL
      t2 == IF t1 # NULL THEN t1
            ELSE IF pq = IPP_QUALITY_DRAFT
                 THEN IF "black_1" \in types THEN "black_1"
                      ELSE IF "sgray_1" \in types THEN "sgray_1" ELSE NULL
                 ELSE IF "black_8" \in types THEN "black_8"
                      ELSE IF "sgray_8" \in types THEN "sgray_8" ELSE NULL
  IN  IF t2 # NULL THEN t2
      ELSE IF "black_8" \in types THEN "black_8"
      ELSE IF "sgray_8" \in types THEN "sgray_8"
      ELSE IF "black_1" \in types THEN "black_1"
      ELSE IF "sgray_1" \in types THEN "sgray_1"
      ELSE IF "srgb_8" \in types THEN "srgb_8"
      ELSE IF "adobe-rgb_8" \in types THEN "adobe-rgb_8"
      ELSE IF "adobe-rgb_16" \in types THEN "adobe-rgb_16"
      ELSE IF "cmyk_8" \in types THEN "cmyk_8"
      ELSE NULL

\* Line 2949: cupsRasterInitPWGHeader (libcups) derives cupsBitsPerPixel and
\* cupsColorSpace from the type.
TypeBits(type) ==
  IF type \in {"black_1", "sgray_1"} THEN 1
  ELSE IF type \in {"black_8", "sgray_8"} THEN 8
  ELSE IF type \in {"srgb_8", "adobe-rgb_8"} THEN 24
  ELSE IF type = "cmyk_8" THEN 32
  ELSE 48

TypeColorSpace(type) ==
  IF type \in {"black_1", "black_8"} THEN "K"
  ELSE IF type \in {"sgray_1", "sgray_8"} THEN "SW"
  ELSE IF type = "srgb_8" THEN "SRGB"
  ELSE IF type = "cmyk_8" THEN "CMYK"
  ELSE "ADOBERGB"

\* Lines 2964-2970: what ras->dither holds after xform_setup.
SetupDither(cupsBitsPerPixel, print_color_mode) ==
  IF cupsBitsPerPixel = 1
  THEN IF print_color_mode \in BiLevels THEN "flat" ELSE "threshold"
  ELSE "zero"

TotalPageCountNoPad(copies, pages, sides) == copies * pages

\* Lines 2946-2947 and 2972: the page count the headers record.
TotalPageCount(copies, pages, sides) ==
  copies * (IF copies > 1 /\ pages % 2 = 1 /\ sides # "one-sided"
            THEN pages + 1 ELSE pages)

\* The ERROR xform_setup reports for job j, in the order of its checks, or
\* NULL_ERR.
SetupError(j) ==
  IF CopiesError(j.copies) THEN "Invalid copies"
  ELSE IF MediaError(j.media, j.media_default) THEN "Unknown media"
  ELSE LET r == SelectResolution(j.res_array, j.printer_resolution, j.print_quality)
       IN  IF r = NULL THEN "No resolution"
           ELSE IF ParseResolution(r) = <<>> THEN "Bad resolution"
           ELSE IF SelectType(j.types, ColorAfterMode(TRUE, j.print_color_mode),
                              QualityAfterMode(
                                QualityAfterResolution(j.res_array, j.printer_resolution,
                                                       j.print_quality),
                                j.print_color_mode)) = NULL
                THEN "No supported raster types"
           ELSE NULL_ERR

\* Line 1613: the pages to print (a job of the model has no "page-ranges").
\* Line 1640: an image is one page.
Pages(j) == IF j.informat = "application/pdf" THEN j.docPages ELSE 1

\* ras after a successful xform_setup and the band set-up of lines
\* 1655-1711, for a page of geom pixels and the IPPTRANSFORM_MAX_RASTER env.
SetupRas(j, geom, env) ==
  LET r     == SelectResolution(j.res_array, j.printer_resolution, j.print_quality)
      dpi   == ParseResolution(r)
      pq    == QualityAfterMode(
                 QualityAfterResolution(j.res_array, j.printer_resolution, j.print_quality),
                 j.print_color_mode)
      type  == SelectType(j.types, ColorAfterMode(TRUE, j.print_color_mode), pq)
      sides == Sides(Pages(j), j.sidesOpt, j.sidesEnv)
      bits  == TypeBits(type)
      bpp   == BandBpp(bits)
      bsize == BandSize(geom.cupsWidth, bpp)
  IN  [ format            |-> j.outformat,
        copies            |-> Copies(j.copies),
        Duplex            |-> HeaderDuplex(sides),
        Tumble            |-> HeaderTumble(sides),
        HWResolution      |-> dpi,
        cupsWidth         |-> geom.cupsWidth,
        cupsHeight        |-> geom.cupsHeight,
        PageSize          |-> <<(geom.cupsWidth * 72) \div dpi[1],
                                (geom.cupsHeight * 72) \div dpi[2]>>,
        cupsBitsPerPixel  |-> bits,
        cupsColorSpace    |-> TypeColorSpace(type),
        cupsBytesPerLine  |-> (geom.cupsWidth * bits + 7) \div 8,
        TotalPageCount    |-> TotalPageCount(Copies(j.copies), Pages(j), sides),
        dither            |-> SetupDither(bits, j.print_color_mode),
        max_raster        |-> MaxRaster(env),
        band_bpp          |-> bpp,
        band_size         |-> bsize,
        band_height       |-> BandHeight(MaxRaster(env), bsize, geom.cupsHeight),
        left |-> U32(0), top |-> U32(0), right |-> U32(0), bottom |-> U32(0),
        out_blanks        |-> 0,
        out_length        |-> 0,
        out_buffer        |-> FALSE,
        comp_buffer       |-> FALSE,
        live              |-> 0 ]

\* Line 2640: memset(ras, 0, sizeof(xform_raster_t)).  out_buffer and
\* comp_buffer tell whether the pointer is set; live counts the blocks that
\* pcl_start_page and raster_start_page have allocated and nobody has freed.
ZeroRas ==
  [ format |-> "", copies |-> 0, Duplex |-> FALSE, Tumble |-> FALSE,
    HWResolution |-> <<0, 0>>, cupsWidth |-> 0, cupsHeight |-> 0,
    PageSize |-> <<0, 0>>, cupsBitsPerPixel |-> 0, cupsColorSpace |-> "",
    cupsBytesPerLine |-> 0, TotalPageCount |-> 0, dither |-> "zero",
    max_raster |-> Size(0, 0), band_bpp |-> 0, band_size |-> 0, band_height |-> 0,
    left |-> U32(0), top |-> U32(0), right |-> U32(0), bottom |-> U32(0),
    out_blanks |-> 0, out_length |-> 0,
    out_buffer |-> FALSE, comp_buffer |-> FALSE, live |-> 0 ]

-----------------------------------------------------------------------------
(* The output of a job is the sequence of writes the backend hands to the  *)
(* write callback, one record each: op names the escape sequence or the    *)
(* libcups raster call, n its numeric argument, data its bytes.            *)

Tok(op, n, data) == [op |-> op, n |-> n, data |-> data]

\* The calls xform_document makes to the backend and to the renderer, in
\* order: a is the page or the line, b is 1 unless the renderer failed.
Call(f, a, b) == [fn |-> f, a |-> a, b |-> b]

IsPcl(r) == r.format = "application/vnd.hp-pcl"

\* Lines 1032-1081: the media size code of pcl_start_page, -1 for none.
PclMediaCode(length) ==
  IF length = 540 THEN 80 ELSE IF length = 595 THEN 25
  ELSE IF length = 624 THEN 90 ELSE IF length = 649 THEN 91
  ELSE IF length = 684 THEN 81 ELSE IF length = 709 THEN 100
  ELSE IF length = 756 THEN 1 ELSE IF length = 792 THEN 2
  ELSE IF length = 842 THEN 26 ELSE IF length = 1008 THEN 3
  ELSE IF length = 1191 THEN 27 ELSE IF length = 1224 THEN 6
  ELSE -1

\* Line 1091: Duplex ? 1 + Tumble != 0 : 0, where + binds before !=.
PclDuplexMode(Duplex, Tumble) ==
  IF Duplex
  THEN IF 1 + (IF Tumble THEN 1 ELSE 0) # 0 THEN 1 ELSE 0
  ELSE 0

\* Lines 1006-1020 and 1121: top, bottom, left, right and out_length for
\* the resolution dpi, a page of cupsWidth by cupsHeight pixels and
\* PageSize[1] = length.
PclBox(dpi, cupsWidth, cupsHeight, length) ==
  LET top    == U32(dpi[2] \div 6)
      bottom == USub(U32(cupsHeight), U32(dpi[2] \div 6))
      left   == IF length = 842
                THEN UDiv(USub(U32(cupsWidth), U32(8 * dpi[1])), 2)
                ELSE U32(dpi[1] \div 4)
      right  == IF length = 842
                THEN UAdd(left, U32(8 * dpi[1]))
                ELSE USub(U32(cupsWidth), U32(dpi[1] \div 4))
  IN  [top |-> top, bottom |-> bottom, left |-> left, right |-> right,
       out_length |-> UDiv(UAdd(USub(right, left), U32(7)), 8)]

\* Lines 1006-1020 and 1120-1123: the print box and buffers of a PCL page.
pcl_start_page_ras(r, pg) ==
  LET box == PclBox(r.HWResolution, r.cupsWidth, r.cupsHeight, r.PageSize[2])
  IN  [r EXCEPT !.top = box.top, !.bottom = box.bottom,
                !.left = box.left, !.right = box.right,
                !.out_blanks = 0,
                !.out_length = UInt(box.out_length),
                !.out_buffer = TRUE, !.comp_buffer = TRUE,
                !.live = @ + 2]

\* Lines 1022-1114: what pcl_start_page writes; r is the record after the
\* print box has been set.
pcl_start_page_out(r, pg) ==
  (IF ~r.Duplex \/ pg % 2 = 1
   THEN <<Tok("lpi_cpi", 12, <<>>), Tok("orientation", 0, <<>>)>>
        \o (IF PclMediaCode(r.PageSize[2]) >= 0
            THEN <<Tok("media_size", PclMediaCode(r.PageSize[2]), <<>>)>>
            ELSE <<>>)
        \o <<Tok("top_margin", (12 * UInt(r.top)) \div r.HWResolution[2], <<>>)>>
        \o (IF r.Duplex
            THEN <<Tok("duplex_mode", PclDuplexMode(r.Duplex, r.Tumble), <<>>)>>
            ELSE <<>>)
   ELSE IF r.Duplex THEN <<Tok("back_side", 2, <<>>)>> ELSE <<>>)
  \o << Tok("resolution", r.HWResolution[1], <<>>),
        Tok("width", UInt(USub(r.right, r.left)), <<>>),
        Tok("height", UInt(USub(r.bottom, r.top)), <<>>),
        Tok("position", (720 * UInt(r.top)) \div r.HWResolution[2], <<>>),
        Tok("compression", 2, <<>>),
        Tok("start_graphics", 1, <<>>) >>

\* Lines 1131-1265: pcl_write_line, its effect on ras and what it writes.
pcl_write_line_ras(r, ly, line) ==
  IF PclBlank(r, line) THEN [r EXCEPT !.out_blanks = @ + 1]
  ELSE [r EXCEPT !.out_blanks = 0]

PclSkipOne(out_blanks) ==
  IF out_blanks > 0 THEN <<Tok("skip", 1, <<>>)>> ELSE <<>>

\* Lines 1253-1261: the skip of the pending blank lines.
PclSkip(out_blanks) ==
  IF out_blanks > 0 THEN <<Tok("skip", out_blanks, <<>>)>> ELSE <<>>

pcl_write_line_out(r, ly, line) ==
  IF PclBlank(r, line) THEN <<>>
  ELSE LET comp == PclCompress(DitherLine(PclCompare(r.cupsColorSpace), r.dither,
                                          ly, UInt(r.left), UInt(r.right), line))
       IN  PclSkip(r.out_blanks) \o <<Tok("transfer", Len(comp), comp)>>

PclEndPageFlushes(r, pg) ==
  PclSkip(r.out_blanks) \o <<Tok("end_graphics", 0, <<>>)>>
  \o (IF ~(r.Duplex /\ pg % 2 = 1) THEN <<Tok("formfeed", 0, <<>>)>> ELSE <<>>)

PclFormFeedAlways(Duplex, pg) == TRUE

\* Lines 907-932: pcl_end_page.  out_blanks is left as it is.
PclFormFeed(Duplex, pg) == ~(Duplex /\ pg % 2 = 1)

pcl_end_page_ras(r, pg) ==
  [r EXCEPT !.out_buffer = FALSE, !.live = IF r.out_buffer THEN @ - 1 ELSE @]

pcl_end_page_out(r, pg) ==
  <<Tok("end_graphics", 0, <<>>)>>
  \o (IF PclFormFeed(r.Duplex, pg) THEN <<Tok("formfeed", 0, <<>>)>> ELSE <<>>)

\* Lines 1338-1362: raster_start_page.
raster_start_page_ras(r, pg) ==
  LET box == [r EXCEPT !.left = U32(0), !.top = U32(0),
                       !.right = U32(r.cupsWidth),
                       !.bottom = U32(r.cupsHeight)]
  IN  IF r.cupsBitsPerPixel = 1
      THEN [box EXCEPT !.out_length = r.cupsBytesPerLine, !.out_buffer = TRUE,
                       !.live = @ + 1]
      ELSE box

raster_start_page_out(r, pg) ==
  IF r.Duplex /\ pg % 2 = 0
  THEN <<Tok("back_header", r.TotalPageCount, <<>>)>>
  ELSE <<Tok("header", r.TotalPageCount, <<>>)>>

\* Lines 1369-1437: raster_write_line.
raster_write_line_out(r, ly, line) ==
  IF r.cupsBitsPerPixel = 1
  THEN LET packed == DitherLine(RasterCompare(r.cupsColorSpace), r.dither,
                                ly, UInt(r.left), UInt(r.right), line)
       IN  <<Tok("pixels", r.cupsBytesPerLine, SubSeq(packed, 1, r.cupsBytesPerLine))>>
  ELSE <<Tok("pixels", r.cupsBytesPerLine, SubSeq(line, 1, r.cupsBytesPerLine))>>

\* Lines 1288-1303: raster_end_page.
raster_end_page_ras(r, pg) ==
  IF r.cupsBitsPerPixel = 1
  THEN [r EXCEPT !.out_buffer = FALSE, !.live = IF r.out_buffer THEN @ - 1 ELSE @]
  ELSE r

\* The callbacks pcl_init (lines 939-947) and raster_init (lines 1310-1318)
\* install.
start_job_out(r) ==
  IF IsPcl(r) THEN <<Tok("reset", 0, <<>>)>> ELSE <<Tok("open", 0, <<>>)>>

end_job_out(r) ==
  IF IsPcl(r) THEN <<Tok("reset", 0, <<>>)>> ELSE <<Tok("close", 0, <<>>)>>

start_page_ras(r, pg) ==
  IF IsPcl(r) THEN pcl_start_page_ras(r, pg) ELSE raster_start_page_ras(r, pg)

start_page_out(r, pg) ==
  IF IsPcl(r) THEN pcl_start_page_out(r, pg) ELSE raster_start_page_out(r, pg)

write_line_ras(r, ly, line) ==
  IF IsPcl(r) THEN pcl_write_line_ras(r, ly, line) ELSE r

write_line_out(r, ly, line) ==
  IF IsPcl(r) THEN pcl_write_line_out(r, ly, line)
  ELSE raster_write_line_out(r, ly, line)

end_page_ras(r, pg) ==
  IF IsPcl(r) THEN pcl_end_page_ras(r, pg) ELSE raster_end_page_ras(r, pg)

end_page_out(r, pg) ==
  IF IsPcl(r) THEN pcl_end_page_out(r, pg) ELSE <<>>

-----------------------------------------------------------------------------
(* The document.  The renderer (struct renderer, lines 62-72, and           *)
(* CGContextDrawImage) is outside the program: what it paints is a         *)
(* function of the document, the page and the line.  Every type of the     *)
(* model is grey, one byte per pixel in the band buffer (band_bpp = 1).    *)

Docs == {"white", "ink", "mixed"}

White(n) == [i \in 1..n |-> 255]

PageRow(doc, pg, line, n) ==
  IF doc = "white" THEN White(n)
  ELSE IF doc = "ink" THEN [i \in 1..n |-> 0]
  ELSE IF (pg + line) % 2 = 0 THEN White(n)
  ELSE [i \in 1..n |-> (i * 97 + line * 31 + pg * 7) % 256]

BackConcatOdd(pg, Duplex, back) ==
  IF pg % 2 = 1 /\ Duplex THEN <<back>> ELSE <<>>

\* Lines 1846-1847: if (!(page & 1) && ras.header.Duplex) the back side
\* transform is concatenated.
BackConcat(pg, Duplex, back) ==
  IF ~(pg % 2 = 1) /\ Duplex THEN <<back>> ELSE <<>>

\* Lines 1845-1848: the transforms concatenated onto the context of the band
\* of page pg, in order: the translation to the band, the back side
\* transform, the page transform.
BandTransforms(pg, Duplex, back) ==
  [page |-> pg,
   m    |-> <<"translate">> \o BackConcat(pg, Duplex, back) \o <<"transform">>]

\* Lines 2043-2048: the transforms concatenated onto the context of a band
\* of the image, in order: the translation to the band, the image
\* transform and, for an image turned by 90 degrees, the rotation.
ImageBandTransforms(pg, image_rotation) ==
  [page |-> pg,
   m    |-> <<"translate", "transform">>
            \o (IF image_rotation # 0 THEN <<"rotate">> ELSE <<>>)]

\* Lines 1832-1840 and 2031-2039: the band is filled with white, before the
\* renderer is called.
FilledBand(r) == [i \in 1..r.band_height |-> White(r.band_size)]

\* Lines 1832-1856 and 2031-2051: on the band filled with white the page is
\* painted, moved up by y0 lines; below the page the band stays white.
RenderedBand(doc, r, pg, y0) ==
  [i \in 1..r.band_height |->
     IF y0 + i - 1 < r.cupsHeight
     THEN PageRow(doc, pg, y0 + i - 1, r.band_size)
     ELSE FilledBand(r)[i]]

\* Lines 1863 and 2058: lineptr, as the bytes from it to the end of its row.
LinePtr(buf, r, ly, starty) ==
  SubSeq(buf[ly - starty + 1], UInt(r.left) * r.band_bpp + 1, r.band_size)

\* Line 1894: memset(ras.band_buffer, 255, ras.header.cupsBytesPerLine).
BlankBuffer(buf, r) ==
  [buf EXCEPT ![1] = [i \in 1..r.band_size |->
                        IF i <= r.cupsBytesPerLine THEN 255 ELSE @[i]]]

BandEndUnclamped(ly, band_height, bottom) == ly + band_height

BandEndOneLine(ly, band_height, bottom) ==
  IF ly + 1 > bottom THEN bottom ELSE ly + 1

\* Lines 1824-1827 and 2023-2026.
BandEnd(ly, band_height, bottom) ==
  IF ly + band_height > bottom THEN bottom ELSE ly + band_height

\* Lines 1876 and 1905: whether the page completes a sheet.
SheetDone(Duplex, pg) == ~Duplex \/ pg % 2 = 0

\* Line 1883: whether a copy is padded with a blank back side.
NeedsBlank(copies, pages, Duplex) == copies > 1 /\ pages % 2 = 1 /\ Duplex

\* The for statements of lines 1796 and 2003, entered: copy = 0.
LoopEntry(copies, again) ==
  IF 0 < copies THEN [pc |-> again, copy |-> 0, page |-> 1]
  ELSE [pc |-> "end_job", copy |-> 0, page |-> 1]

AfterCopyRestartsJob(c, copies, again) ==
  IF c + 1 < copies THEN [pc |-> "start_job", copy |-> c + 1, page |-> 1]
  ELSE [pc |-> "end_job", copy |-> c + 1, page |-> 1]

\* The for statements of lines 1796 and 2003: where control goes once copy
\* c is complete.
AfterCopy(c, copies, again) ==
  IF c + 1 < copies THEN [pc |-> again, copy |-> c + 1, page |-> 1]
  ELSE [pc |-> "end_job", copy |-> c + 1, page |-> 1]

\* The for statement of line 1798 and the test of line 1883: where control
\* goes once page pg of copy c has been ended.
AfterPage(c, pg, pages, r) ==
  IF pg + 1 <= pages THEN [pc |-> "load_page", copy |-> c, page |-> pg + 1]
  ELSE IF NeedsBlank(r.copies, pages, r.Duplex)
       THEN [pc |-> "blank_page", copy |-> c, page |-> pg + 1]
       ELSE AfterCopy(c, r.copies, "load_page")

-----------------------------------------------------------------------------
(* Spec: xform_document (lines 1515-2090), one job from xform_setup to its *)
(* return.                                                                 *)

PDF == "application/pdf"

CopiesOptions ==
  {[set |-> FALSE, val |-> 0]}
    \cup {[set |-> TRUE, val |-> v] : v \in {0, 10000} \cup (2..MaxCopies)}

Jobs ==
  { j \in [ outformat : {"application/vnd.hp-pcl", "image/pwg-raster"},
            informat : {PDF, "image/jpeg"},
            docPages : 1..MaxPages,
            doc : Docs,
            copies : CopiesOptions,
            media : {NULL, "unknown"},
            media_default : {NULL},
            res_array : {<<>>, <<"6dpi">>},
            printer_resolution : {NULL},
            print_quality : {[set |-> FALSE, val |-> 0]},
            print_color_mode : {NULL},
            types : {{}, {"sgray_8"}, {"black_1"}},
            sidesOpt : {NULL, "two-sided-long-edge"},
            sidesEnv : {NULL},
            sheet_back : {"normal"} ] :
      j.informat = PDF \/ j.docPages = 1 }

\* The page in pixels, as cupsRasterInitPWGHeader derives it from the media
\* size and the resolution.
Geometries ==
  [cupsWidth : {6, 7}, cupsHeight : (MaxJobHeight - 1)..MaxJobHeight]

\* IPPTRANSFORM_MAX_RASTER: unset, below one line, two lines.
JobEnvs ==
  {[set |-> FALSE, high |-> 0, val |-> 0], [set |-> TRUE, high |-> 0, val |-> 1],
   [set |-> TRUE, high |-> 0, val |-> 12]}

Init ==
  /\ fn = "job" /\ fpc = "ready" /\ arg = <<>> /\ res = <<>>
  /\ pc = "setup"
  /\ job \in Jobs
  /\ ras = ZeroRas
  /\ copy = 0 /\ page = 0 /\ y = 0
  /\ band_starty = 0 /\ band_endy = 0
  /\ back_transform = <<>>
  /\ impressions = 0 /\ media_sheets = 0
  /\ band_buffer = <<>>
  /\ sink = <<>> /\ calls = <<>> /\ ctm = <<>>
  /\ err = NULL_ERR
  /\ status = RUNNING

\* Lines 1647-1653: xform_setup fails and xform_document returns 1.
SetupFail ==
  /\ pc = "setup"
  /\ SetupError(job) # NULL_ERR
  /\ err' = SetupError(job)
  /\ status' = Returned(1)
  /\ pc' = "done"
  /\ UNCHANGED <<job, ras, band_buffer, sink, calls, back_transform,
                 impressions, media_sheets>>
  /\ UNCHANGED loopVars
  /\ UNCHANGED <<fnVars, ctm>>

\* Lines 1647-1753: xform_setup succeeds and the band buffer is allocated.
Setup ==
  /\ pc = "setup"
  /\ SetupError(job) = NULL_ERR
  /\ \E geom \in Geometries, env \in JobEnvs :
       /\ ras' = SetupRas(job, geom, env)
       /\ band_buffer' = [i \in 1..ras'.band_height |->
                            [k \in 1..ras'.band_size |-> 0]]
  /\ pc' = "start_job"
  /\ UNCHANGED <<job, sink, calls, back_transform, impressions, media_sheets,
                 err, status>>
  /\ UNCHANGED loopVars
  /\ UNCHANGED <<fnVars, ctm>>

\* Lines 1758-1796: start_job, then the PDF branch.  rendering is assigned
\* only for a PDF (line 1576); for an image the test of line 1760 reads an
\* indeterminate pointer and may take this branch as well.
StartJobPdf ==
  /\ pc = "start_job"
  /\ calls' = Append(calls, Call("start_job", 0, 1))
  /\ sink' = sink \o start_job_out(ras)
  /\ back_transform' = BackTransform(Pages(job), job.sheet_back, ras.Duplex,
                                     ras.Tumble, ras.PageSize[1], ras.PageSize[2])
  /\ LET to == LoopEntry(ras.copies, "load_page")
     IN  pc' = to.pc /\ copy' = to.copy /\ page' = to.page
  /\ UNCHANGED <<job, ras, y, band_starty, band_endy, impressions, media_sheets,
                 band_buffer, err, status>>
  /\ UNCHANGED <<fnVars, ctm>>

\* Lines 1758-1760 and 1914-2003: start_job, then the image branch.
StartJobImage ==
  /\ pc = "start_job"
  /\ job.informat # PDF
  /\ calls' = Append(calls, Call("start_job", 0, 1))
  /\ sink' = sink \o start_job_out(ras)
  /\ LET to == LoopEntry(ras.copies, "image_page")
     IN  pc' = to.pc /\ copy' = to.copy /\ page' = to.page
  /\ UNCHANGED <<job, ras, y, band_starty, band_endy, back_transform,
                 impressions, media_sheets, band_buffer, err, status>>
  /\ UNCHANGED <<fnVars, ctm>>

\* What is left alone by the steps of the page loops.
jobFixed == <<job, back_transform, err, status>>

\* Lines 1804-1816: loadPage succeeds, start_page, y = ras.top.
LoadPage ==
  /\ pc = "load_page"
  /\ calls' = calls \o <<Call("loadPage", page, 1), Call("start_page", page, 1)>>
  /\ ras' = start_page_ras(ras, page)
  /\ sink' = sink \o start_page_out(ras', page)
  /\ y' = UInt(ras'.top)
  /\ band_starty' = 0 /\ band_endy' = 0
  /\ pc' = "line"
  /\ UNCHANGED <<copy, page, impressions, media_sheets, band_buffer>>
  /\ UNCHANGED jobFixed
  /\ UNCHANGED <<fnVars, ctm>>

AbortOutEndsJob(out, r) == out \o end_job_out(r)

\* What a failed renderer call leaves of the output (lines 1806-1807 and
\* 1853-1854: deallocate and return, nothing is written).
AbortOut(out, r) == out

\* Lines 1804-1808: loadPage fails.
LoadPageFail ==
  /\ pc = "load_page"
  /\ calls' = Append(calls, Call("loadPage", page, 0))
  /\ sink' = AbortOut(sink, ras)
  /\ status' = Returned(1)
  /\ pc' = "done"
  /\ UNCHANGED <<job, ras, back_transform, err, impressions, media_sheets,
                 band_buffer>>
  /\ UNCHANGED loopVars
  /\ UNCHANGED <<fnVars, ctm>>

\* Lines 1818-1857: the next band of a PDF page is rendered.
RenderBand ==
  /\ pc = "line"
  /\ y < UInt(ras.bottom)
  /\ y >= band_endy
  /\ band_starty' = y
  /\ band_endy' = BandEnd(y, ras.band_height, UInt(ras.bottom))
  /\ band_buffer' = RenderedBand(job.doc, ras, page, y)
  /\ calls' = Append(calls, Call("render", y, 1))
  /\ UNCHANGED <<pc, ras, copy, page, y, impressions, media_sheets, sink>>
  /\ UNCHANGED jobFixed
  /\ ctm' = BandTransforms(page, ras.Duplex, back_transform)
  /\ UNCHANGED fnVars

\* Lines 2017-2052: the next band of the image is drawn; CGContextDrawImage
\* reports no failure.  The image of a job of the model is as wide as it is
\* high, so that lines 1923-1939 leave image_rotation 0.
ImageRenderBand ==
  /\ pc = "image_line"
  /\ y < UInt(ras.bottom)
  /\ y >= band_endy
  /\ band_starty' = y
  /\ band_endy' = BandEnd(y, ras.band_height, UInt(ras.bottom))
  /\ band_buffer' = RenderedBand(job.doc, ras, page, y)
  /\ calls' = Append(calls, Call("DrawImage", y, 1))
  /\ UNCHANGED <<pc, ras, copy, page, y, impressions, media_sheets, sink>>
  /\ UNCHANGED jobFixed
  /\ ctm' = ImageBandTransforms(page, 0)
  /\ UNCHANGED fnVars

\* Lines 1818-1855: the band is filled with white, then render fails.
\* (band_starty and band_endy, set at lines 1824-1827, are locals that the
\* return ends.)
RenderFail ==
  /\ pc = "line"
  /\ y < UInt(ras.bottom)
  /\ y >= band_endy
  /\ band_buffer' = FilledBand(ras)
  /\ calls' = Append(calls, Call("render", y, 0))
  /\ sink' = AbortOut(sink, ras)
  /\ status' = Returned(1)
  /\ pc' = "done"
  /\ UNCHANGED <<job, ras, back_transform, err, impressions, media_sheets>>
  /\ UNCHANGED loopVars
  /\ ctm' = BandTransforms(page, ras.Duplex, back_transform)
  /\ UNCHANGED fnVars

\* Lines 1863-1869: one line of a PDF page is written and y ++.  (pack_rgba
\* and pack_rgba16 are for 24 and 48 bits, which no type of the model has.)
WriteLine ==
  /\ pc = "line"
  /\ y < UInt(ras.bottom)
  /\ y < band_endy
  /\ LET lineptr == LinePtr(band_buffer, ras, y, band_starty)
     IN  /\ sink' = sink \o write_line_out(ras, y, lineptr)
         /\ ras' = write_line_ras(ras, y, lineptr)
  /\ calls' = Append(calls, Call("write_line", y, 1))
  /\ y' = y + 1
  /\ UNCHANGED <<pc, copy, page, band_starty, band_endy, impressions,
                 media_sheets, band_buffer>>
  /\ UNCHANGED jobFixed
  /\ UNCHANGED <<fnVars, ctm>>

\* Lines 2058-2064: one line of the image is written and y ++.
ImageWriteLine ==
  /\ pc = "image_line"
  /\ y < UInt(ras.bottom)
  /\ y < band_endy
  /\ LET lineptr == LinePtr(band_buffer, ras, y, band_starty)
     IN  /\ sink' = sink \o write_line_out(ras, y, lineptr)
         /\ ras' = write_line_ras(ras, y, lineptr)
  /\ calls' = Append(calls, Call("write_line", y, 1))
  /\ y' = y + 1
  /\ UNCHANGED <<pc, copy, page, band_starty, band_endy, impressions,
                 media_sheets, band_buffer>>
  /\ UNCHANGED jobFixed
  /\ UNCHANGED <<fnVars, ctm>>

\* Lines 1872-1881, then the tests of lines 1798, 1883 and 1796.
EndPage ==
  /\ pc = "line"
  /\ ~(y < UInt(ras.bottom))
  /\ calls' = Append(calls, Call("end_page", page, 1))
  /\ sink' = sink \o end_page_out(ras, page)
  /\ ras' = end_page_ras(ras, page)
  /\ impressions' = impressions + 1
  /\ media_sheets' = IF SheetDone(ras.Duplex, page) THEN media_sheets + 1
                     ELSE media_sheets
  /\ LET to == AfterPage(copy, page, Pages(job), ras)
     IN  pc' = to.pc /\ copy' = to.copy /\ page' = to.page
  /\ UNCHANGED <<y, band_starty, band_endy, band_buffer>>
  /\ UNCHANGED jobFixed
  /\ UNCHANGED <<fnVars, ctm>>

\* Lines 1894-1898: the blank back side is started; page is pages + 1.
BlankStart ==
  /\ pc = "blank_page"
  /\ band_buffer' = BlankBuffer(band_buffer, ras)
  /\ calls' = Append(calls, Call("start_page", page, 1))
  /\ ras' = start_page_ras(ras, page)
  /\ sink' = sink \o start_page_out(ras', page)
  /\ y' = UInt(ras'.top)
  /\ pc' = "blank_line"
  /\ UNCHANGED <<copy, page, band_starty, band_endy, impressions, media_sheets>>
  /\ UNCHANGED jobFixed
  /\ UNCHANGED <<fnVars, ctm>>

\* Lines 1898-1899: write_line(y, ras.band_buffer).
BlankLine ==
  /\ pc = "blank_line"
  /\ y < UInt(ras.bottom)
  /\ sink' = sink \o write_line_out(ras, y, band_buffer[1])
  /\ ras' = write_line_ras(ras, y, band_buffer[1])
  /\ calls' = Append(calls, Call("write_line", y, 1))
  /\ y' = y + 1
  /\ UNCHANGED <<pc, copy, page, band_starty, band_endy, impressions,
                 media_sheets, band_buffer>>
  /\ UNCHANGED jobFixed
  /\ UNCHANGED <<fnVars, ctm>>

\* Lines 1901-1911.
BlankEnd ==
  /\ pc = "blank_line"
  /\ ~(y < UInt(ras.bottom))
  /\ calls' = Append(calls, Call("end_page", page, 1))
  /\ sink' = sink \o end_page_out(ras, page)
  /\ ras' = end_page_ras(ras, page)
  /\ impressions' = impressions + 1
  /\ media_sheets' = IF SheetDone(ras.Duplex, page) THEN media_sheets + 1
                     ELSE media_sheets
  /\ LET to == AfterCopy(copy, ras.copies, "load_page")
     IN  pc' = to.pc /\ copy' = to.copy /\ page' = to.page
  /\ UNCHANGED <<y, band_starty, band_endy, band_buffer>>
  /\ UNCHANGED jobFixed
  /\ UNCHANGED <<fnVars, ctm>>

\* Lines 2003-2015: start_page(1) of a copy of the image.
ImageStartPage ==
  /\ pc = "image_page"
  /\ calls' = Append(calls, Call("start_page", 1, 1))
  /\ ras' = start_page_ras(ras, 1)
  /\ sink' = sink \o start_page_out(ras', 1)
  /\ y' = UInt(ras'.top)
  /\ band_starty' = 0 /\ band_endy' = 0
  /\ pc' = "image_line"
  /\ UNCHANGED <<copy, page, impressions, media_sheets, band_buffer>>
  /\ UNCHANGED jobFixed
  /\ UNCHANGED <<fnVars, ctm>>

\* Lines 2067-2073.
ImageEndPage ==
  /\ pc = "image_line"
  /\ ~(y < UInt(ras.bottom))
  /\ calls' = Append(calls, Call("end_page", 1, 1))
  /\ sink' = sink \o end_page_out(ras, 1)
  /\ ras' = end_page_ras(ras, 1)
  /\ impressions' = impressions + 1
  /\ media_sheets' = media_sheets + 1
  /\ LET to == AfterCopy(copy, ras.copies, "image_page")
     IN  pc' = to.pc /\ copy' = to.copy /\ page' = to.page
  /\ UNCHANGED <<y, band_starty, band_endy, band_buffer>>
  /\ UNCHANGED jobFixed
  /\ UNCHANGED <<fnVars, ctm>>

\* Lines 2078-2089: end_job and return 0.
EndJob ==
  /\ pc = "end_job"
  /\ calls' = Append(calls, Call("end_job", 0, 1))
  /\ sink' = sink \o end_job_out(ras)
  /\ status' = Returned(0)
  /\ pc' = "done"
  /\ UNCHANGED <<job, ras, back_transform, err, impressions, media_sheets,
                 band_buffer>>
  /\ UNCHANGED loopVars
  /\ UNCHANGED <<fnVars, ctm>>

Next ==
  \/ SetupFail
  \/ Setup
  \/ StartJobPdf
  \/ StartJobImage
  \/ LoadPage
  \/ LoadPageFail
  \/ RenderBand
  \/ RenderFail
  \/ WriteLine
  \/ EndPage
  \/ BlankStart
  \/ BlankLine
  \/ BlankEnd
  \/ ImageStartPage
  \/ ImageRenderBand
  \/ ImageWriteLine
  \/ ImageEndPage
  \/ EndJob

Spec == Init /\ [][Next]_vars

-----------------------------------------------------------------------------
(* Properties of a job.                                                    *)

IsJob == fn = "job"

BackendFns == {"start_job", "start_page", "write_line", "end_page", "end_job"}

RenderFns == {"render", "DrawImage"}

IsBackendCall(c) == c.fn \in BackendFns

\* The calls made to the backend, in order.
BackendCalls == SelectSeq(calls, IsBackendCall)

\* C2: on every page the lines handed to write_line are top, top + 1, ...,
\* bottom - 1, each once and in this order, and a band is rendered only at
\* the line where the previous band ends (band_height lines after the
\* previous band's first line), when every line of the previous band has
\* been written; the first line of the new band is written next.
BandLoopVisitsEachLineOnce ==
  IsJob =>
    LET B == BackendCalls
    IN  /\ \A i \in 1..Len(B) :
             /\ B[i].fn = "write_line" =>
                  /\ i > 1
                  /\ \/ B[i - 1].fn = "start_page" /\ B[i].a = UInt(ras.top)
                     \/ B[i - 1].fn = "write_line" /\ B[i].a = B[i - 1].a + 1
             /\ B[i].fn = "end_page" =>
                  /\ i > 1
                  /\ B[i - 1].fn = "write_line"
                  /\ B[i - 1].a = UInt(ras.bottom) - 1
        /\ \A i \in 1..Len(calls) :
             calls[i].fn \in RenderFns =>
               /\ i > 1
               /\ \/ calls[i - 1].fn = "start_page" /\ calls[i].a = UInt(ras.top)
                  \/ /\ calls[i - 1].fn = "write_line"
                     /\ calls[i - 1].a = calls[i].a - 1
                     /\ \E k \in 1..(i - 1) :
                          /\ calls[k].fn \in RenderFns
                          /\ calls[k].a = calls[i].a - ras.band_height
                          /\ \A m \in (k + 1)..(i - 1) : calls[m].fn = "write_line"
               /\ (i < Len(calls) /\ calls[i].b = 1) =>
                    calls[i + 1] = Call("write_line", calls[i].a, 1)

\* A job is complete whose pages took two bands each, the second one line
\* shorter than the band height allows or not.
BandLoopWitness ==
  /\ IsJob
  /\ pc = "done"
  /\ status = Returned(0)
  /\ ras.band_height = 2
  /\ \E i \in 1..Len(calls) :
       calls[i].fn \in RenderFns /\ calls[i].a = UInt(ras.top) + 2

\* The output of the page that was started last.
LastPageOut ==
  LET starts == {i \in 1..Len(sink) : sink[i].op = "start_graphics"}
      from   == CHOOSE i \in starts : \A k \in starts : k <= i
  IN  IF starts = {} THEN <<>> ELSE SubSeq(sink, from + 1, Len(sink))

IsSkip(t) == t.op = "skip"

IsTransfer(t) == t.op = "transfer"

\* A PCL page has just been ended and each of its lines was blank: no
\* transfer has reset out_blanks since pcl_start_page.
AllBlankPageEnded ==
  /\ IsJob
  /\ IsPcl(ras)
  /\ Len(calls) > 0
  /\ calls[Len(calls)].fn = "end_page"
  /\ ras.out_blanks = UInt(ras.bottom) - UInt(ras.top)

\* C5 as it is stated: an all-blank PCL page produces exactly one skip
\* sequence and no transfer.
BlankPageOneSkip ==
  AllBlankPageEnded =>
    /\ Len(SelectSeq(LastPageOut, IsSkip)) = 1
    /\ Len(SelectSeq(LastPageOut, IsTransfer)) = 0

\* C5, amended: an all-blank PCL page produces no skip sequence and no
\* transfer; a skip sequence is only ever written in front of a transfer,
\* and the count of pending blank lines is dropped by pcl_end_page.
BlankPageNoSkip ==
  /\ AllBlankPageEnded =>
       /\ Len(SelectSeq(LastPageOut, IsSkip)) = 0
       /\ Len(SelectSeq(LastPageOut, IsTransfer)) = 0
  /\ (IsJob /\ IsPcl(ras)) =>
       \A i \in 1..Len(sink) :
         sink[i].op = "skip" => (i < Len(sink) /\ sink[i + 1].op = "transfer")

\* An all-blank PCL page of three lines has been ended.
BlankPageWitness ==
  /\ AllBlankPageEnded
  /\ ras.out_blanks = 3
  /\ LastPageOut = pcl_end_page_out(ras, calls[Len(calls)].a)

\* C6: the calls to the backend are start_job, then pages, each a
\* start_page, write_lines and the end_page of the same number, then
\* end_job; start_job is the first call and is made once, no page starts
\* inside another, end_job is the last call of a job that returns 0 and is
\* not made by one that returns 1.
BackendCallGrammar ==
  IsJob =>
    LET B == BackendCalls
    IN  /\ \A i \in 1..Len(B) :
             /\ (i = 1) <=> (B[i].fn = "start_job")
             /\ B[i].fn = "start_page" =>
                  (i > 1 /\ B[i - 1].fn \in {"start_job", "end_page"})
             /\ B[i].fn \in {"write_line", "end_page"} =>
                  \E k \in 1..(i - 1) :
                    /\ B[k].fn = "start_page"
                    /\ B[i].fn = "end_page" => B[k].a = B[i].a
                    /\ \A m \in (k + 1)..(i - 1) : B[m].fn = "write_line"
             /\ B[i].fn = "end_job" =>
                  /\ i = Len(B)
                  /\ i > 1
                  /\ B[i - 1].fn \in {"start_job", "end_page"}
        /\ (pc \notin {"setup", "start_job"} /\ err = NULL_ERR) => Len(B) > 0
        /\ status = Returned(0) => (Len(B) > 0 /\ B[Len(B)].fn = "end_job")
        /\ (pc = "end_job" \/ status = Returned(0)) =>
             \A i \in 1..Len(B) :
               B[i].fn = "start_page" =>
                 \E k \in (i + 1)..Len(B) : B[k] = Call("end_page", B[i].a, 1)

\* A job of several copies has returned 0 whose copies end in a blank back
\* side, started as page pages + 1.
GrammarWitness ==
  /\ IsJob
  /\ status = Returned(0)
  /\ copy > 1
  /\ \E i \in 1..Len(calls) : calls[i] = Call("start_page", Pages(job) + 1, 1)

\* The renderer has reported a failure.
RendererFailed == \E i \in 1..Len(calls) : calls[i].b = 0

\* C7: when loadPage or render fails, xform_document returns 1 at once: the
\* failed call is the last call there is, the step of the failure leaves
\* the output as it was, and no step follows it.
RendererFailureAborts ==
  /\ [](RendererFailed =>
          /\ calls[Len(calls)].b = 0
          /\ \A i \in 1..(Len(calls) - 1) : calls[i].b = 1
          /\ pc = "done"
          /\ status = Returned(1))
  /\ [][(RendererFailed' /\ ~RendererFailed) => sink' = sink]_vars
  /\ [][~RendererFailed]_vars

\* render fails for a band that is not the first of its page, after a page
\* has been completed.
RenderFailureWitness ==
  /\ RendererFailed
  /\ calls[Len(calls)].fn = "render"
  /\ calls[Len(calls)].a > UInt(ras.top)
  /\ impressions >= 1

\* The types ipptransform knows (lines 2858-2924).
RasterTypes ==
  {"adobe-rgb_16", "adobe-rgb_8", "srgb_8", "cmyk_8", "black_1", "sgray_1",
   "black_8", "sgray_8"}

\* The job asks for what cannot be negotiated.
NegotiationError(j) ==
  \/ j.copies.set /\ j.copies.val \notin 1..9999
  \/ j.media = "unknown"
  \/ j.media = NULL /\ j.media_default = "unknown"
  \/ \A i \in 1..Len(j.res_array) : ParseResolution(j.res_array[i]) = <<>>
  \/ j.types \cap RasterTypes = {}

\* C8: a job with a negotiation error never gets past xform_setup:
\* xform_document returns 1, no backend operation has been called and
\* nothing has been written; and whenever xform_setup has failed, that is so.
NegotiationErrorsBeforeOutput ==
  IsJob =>
    /\ NegotiationError(job) =>
         /\ pc \in {"setup", "done"}
         /\ pc = "done" => (status = Returned(1) /\ err # NULL_ERR)
    /\ (NegotiationError(job) \/ err # NULL_ERR) =>
         /\ calls = <<>>
         /\ sink = <<>>
         /\ status # Returned(0)

\* xform_setup has failed at the last of its checks, the type.
NegotiationWitness ==
  /\ IsJob
  /\ pc = "done"
  /\ err = "No supported raster types"
  /\ status = Returned(1)
  /\ sink = <<>>

-----------------------------------------------------------------------------
(* xform_document, lines 1920-1997: the transform that places an image on  *)
(* the page.  The code computes in double (line 1553) from cupsPageSize, a *)
(* float.  A number is held exactly, as [neg, mag]: its sign and its       *)
(* magnitude in units of 2^-96, mag being twelve 16-bit parts, the most    *)
(* significant first.  Every operation of the code is the exact one        *)
(* followed by the rounding of IEEE 754 double arithmetic, to the nearest  *)
(* value of 53 significant bits, ties to even.  The numbers of the model   *)
(* are 0 or between 2^-40 and 2^31 in magnitude, where a double has no bit *)
(* below 2^-96.                                                            *)

\* The magnitude of the integer n, 0 <= n < 2^31.
MagOf(n) ==
  [i \in 1..12 |-> IF i = 5 THEN n \div 65536 ELSE IF i = 6 THEN n % 65536 ELSE 0]

MagLess(a, b) ==
  \E k \in 1..12 : a[k] < b[k] /\ \A i \in 1..(k - 1) : a[i] = b[i]

RECURSIVE MagCarry(_, _)
\* What the parts of v after part i carry into it (or borrow from it, when
\* negative); v holds a sum, a difference or a product part by part.
MagCarry(v, i) ==
  IF i = 12 THEN 0 ELSE (v[i + 1] + MagCarry(v, i + 1)) \div 65536

\* The magnitude whose parts, not yet carried, are v; v is not negative as
\* a whole.
MagNorm(v) == [i \in 1..12 |-> (v[i] + MagCarry(v, i)) % 65536]

RECURSIVE MagRem(_, _, _)
\* The remainder of the first i parts of a by c.
MagRem(a, c, i) ==
  IF i = 0 THEN 0 ELSE (MagRem(a, c, i - 1) * 65536 + a[i]) % c

\* The whole units of 2^-96 in a / c, for an integer 0 < c < 2^15.
MagDiv(a, c) == [i \in 1..12 |-> (MagRem(a, c, i - 1) * 65536 + a[i]) \div c]

\* The double nearest to a value: mag are its whole units, inexact says
\* that a part of a unit is left.  Bit 0 is the unit 2^-96.  The 53 bits
\* from the highest are kept, and the value goes up when what is cut is
\* more than half of the last bit kept, or is half of it and the last bit
\* kept is 1.
RoundToDouble(neg, mag, inexact) ==
  LET Bit(p)  == (mag[12 - (p \div 16)] \div (2 ^ (p % 16))) % 2
      Keep(p) == [i \in 1..12 |->
                    LET lo == 16 * (12 - i)
                    IN  IF lo >= p THEN mag[i]
                        ELSE IF lo + 16 <= p THEN 0
                        ELSE (mag[i] \div (2 ^ (p - lo))) * (2 ^ (p - lo))]
      Pow2(p) == [i \in 1..12 |-> IF i = 12 - (p \div 16) THEN 2 ^ (p % 16) ELSE 0]
      top     == LET i == CHOOSE k \in 1..12 :
                            mag[k] # 0 /\ \A j \in 1..(k - 1) : mag[j] = 0
                     b == CHOOSE n \in 0..15 : 2 ^ n <= mag[i] /\ mag[i] < 2 ^ (n + 1)
                 IN  16 * (12 - i) + b
      low     == top - 52
  IN  IF mag = MagOf(0) THEN [neg |-> FALSE, mag |-> mag]
      ELSE IF low <= 0 THEN [neg |-> neg, mag |-> mag]
      ELSE LET half   == Bit(low - 1) = 1
               sticky == inexact \/ Keep(low - 1) # mag
               odd    == Bit(low) = 1
           IN  [neg |-> neg,
                mag |-> IF half /\ (sticky \/ odd)
                        THEN MagNorm([i \in 1..12 |-> Keep(low)[i] + Pow2(low)[i]])
                        ELSE Keep(low)]

\* (double)n for an integer n.
DoubleOf(n) == [neg |-> n < 0, mag |-> MagOf(IF n < 0 THEN 0 - n ELSE n)]

\* A float is <<n, d>>, the number n / d with d a power of 2 up to 2^14; as
\* a double it is the same number.
FloatToDouble(f) == [neg |-> FALSE, mag |-> MagDiv(MagOf(f[1]), f[2])]

\* a + b, a - b and a * c (c an integer, 0 < c < 2^15) as real numbers.
ExactAdd(a, b) ==
  IF a.neg = b.neg
  THEN [neg |-> a.neg, mag |-> MagNorm([i \in 1..12 |-> a.mag[i] + b.mag[i]])]
  ELSE IF MagLess(a.mag, b.mag)
       THEN [neg |-> b.neg, mag |-> MagNorm([i \in 1..12 |-> b.mag[i] - a.mag[i]])]
       ELSE [neg |-> a.neg /\ a.mag # b.mag,
             mag |-> MagNorm([i \in 1..12 |-> a.mag[i] - b.mag[i]])]

ExactSub(a, b) ==
  ExactAdd(a, [neg |-> ~b.neg /\ b.mag # MagOf(0), mag |-> b.mag])

ExactTimes(a, c) ==
  [neg |-> a.neg, mag |-> MagNorm([i \in 1..12 |-> a.mag[i] * c])]

\* a < b as real numbers, and so as doubles.
DoubleLess(a, b) ==
  IF a.neg # b.neg THEN a.neg
  ELSE IF a.neg THEN MagLess(b.mag, a.mag) ELSE MagLess(a.mag, b.mag)

\* a - b and a / (double)c in double.
DoubleSub(a, b) ==
  LET x == ExactSub(a, b) IN RoundToDouble(x.neg, x.mag, FALSE)

DoubleDiv(a, c) ==
  RoundToDouble(a.neg, MagDiv(a.mag, c), MagRem(a.mag, c, 12) # 0)

\* 0.5 * a: exact.
DoubleHalf(a) == [neg |-> a.neg, mag |-> MagDiv(a.mag, 2)]

\* Lines 1992 and 1996: cupsPageSize[i] - scale * size.  A compiler that
\* contracts the product and the difference into one fused operation rounds
\* once; otherwise the product is rounded, and then the difference.
PageLessScaled(P, s, c, contract) ==
  IF contract
  THEN LET x == ExactSub(P, ExactTimes(s, c)) IN RoundToDouble(x.neg, x.mag, FALSE)
  ELSE LET x == ExactTimes(s, c)
       IN  DoubleSub(P, RoundToDouble(x.neg, x.mag, FALSE))

\* Lines 1923-1939: image_rotation.
ImageRotation(image_width, image_height, cupsWidth, cupsHeight) ==
  IF \/ image_height < image_width /\ cupsWidth < cupsHeight
     \/ image_width < image_height /\ cupsHeight < cupsWidth
  THEN 90 ELSE 0

\* Line 1944: whether the image is scaled to fill the page.
ScaleToFill(print_scaling, borderless) ==
  (print_scaling = "auto" /\ borderless) \/ print_scaling = "fill"

UniformScaleSwapped(fill, xscale, yscale) ==
  IF fill
  THEN IF DoubleLess(yscale, xscale) THEN yscale ELSE xscale
  ELSE IF DoubleLess(xscale, yscale) THEN yscale ELSE xscale

\* Lines 1961-1964 and 1984-1987: the larger of the two quotients to fill,
\* the smaller to fit.
UniformScale(fill, xscale, yscale) ==
  IF fill
  THEN IF DoubleLess(xscale, yscale) THEN yscale ELSE xscale
  ELSE IF DoubleLess(yscale, xscale) THEN yscale ELSE xscale

\* Lines 1944-1997: W and H are cupsPageSize[0..1], floats, in points.
ImageTransform(image_width, image_height, rotation, fill, W, H, contract) ==
  LET cw == IF rotation # 0 THEN image_height ELSE image_width
      ch == IF rotation # 0 THEN image_width ELSE image_height
      Wd == FloatToDouble(W)
      Hd == FloatToDouble(H)
      xs == IF fill THEN DoubleDiv(Wd, cw)
            ELSE DoubleDiv(DoubleSub(Wd, DoubleOf(36)), cw)
      ys == IF fill THEN DoubleDiv(Hd, ch)
            ELSE DoubleDiv(DoubleSub(Hd, DoubleOf(36)), ch)
      s  == UniformScale(fill, xs, ys)
  IN  [ a  |-> s, d |-> s,
        tx |-> DoubleHalf(PageLessScaled(Wd, s, cw, contract)),
        ty |-> DoubleHalf(PageLessScaled(Hd, s, ch, contract)) ]

\* Largest width and height of an image, in pixels.
MaxImage == 5

\* cupsPageSize: smaller than the 36 points of margin, small, and the A4 of
\* cupsRasterInitPWGHeader, 72.0f * 21000 / 2540.0f by 72.0f * 29700 /
\* 2540.0f.
ImagePages ==
  { << <<30, 1>>, <<40, 1>> >>, << <<72, 1>>, <<60, 1>> >>,
    << <<100, 1>>, <<100, 1>> >>,
    << <<9752995, 16384>>, <<6896761, 8192>> >> }

\* cupsWidth and cupsHeight: portrait, landscape, square.
ImageRasters == {<<6, 8>>, <<8, 6>>, <<6, 6>>}

InitScale ==
  /\ fn = "scale"
  /\ fpc = "ready"
  /\ NoJob
  /\ arg \in [image_width : 1..MaxImage, image_height : 1..MaxImage,
              cupsPageSize : ImagePages, raster : ImageRasters,
              print_scaling : {"auto", "fill", "fit", "none"},
              borderless : BOOLEAN]
  /\ res = <<>>

PlaceImage ==
  /\ fn = "scale" /\ fpc = "ready"
  /\ \E contract \in BOOLEAN :
       LET rot  == ImageRotation(arg.image_width, arg.image_height,
                                 arg.raster[1], arg.raster[2])
           fill == ScaleToFill(arg.print_scaling, arg.borderless)
       IN  res' = [ image_rotation |-> rot,
                    fill |-> fill,
                    transform |->
                      ImageTransform(arg.image_width, arg.image_height, rot,
                                     fill, arg.cupsPageSize[1],
                                     arg.cupsPageSize[2], contract) ]
  /\ fpc' = "done"
  /\ UNCHANGED <<fn, arg>>
  /\ UNCHANGED jobVars

NextScale == PlaceImage

SpecScale == InitScale /\ [][NextScale]_vars

ScaleDone == fn = "scale" /\ fpc = "done"

\* The content width and height the page sees: swapped when rotated.
ContentWidth == IF res.image_rotation = 90 THEN arg.image_height ELSE arg.image_width

ContentHeight == IF res.image_rotation = 90 THEN arg.image_width ELSE arg.image_height

\* The page and the scaled content, as real numbers.
PageW == FloatToDouble(arg.cupsPageSize[1])

PageH == FloatToDouble(arg.cupsPageSize[2])

ScaledW == ExactTimes(res.transform.a, ContentWidth)

ScaledH == ExactTimes(res.transform.a, ContentHeight)

\* C11: the image is scaled by one factor s in both directions; when it is
\* scaled to fit, s*w <= W and s*h <= H; when it is scaled to fill, s*w >= W
\* and s*h >= H; the translation is ((W - s*w)/2, (H - s*h)/2); w and h are
\* the image's width and height, swapped when it is rotated by 90 degrees.
ImageScaleFitsOrFills ==
  ScaleDone =>
    /\ res.transform.d = res.transform.a
    /\ ~res.fill => (~DoubleLess(PageW, ScaledW) /\ ~DoubleLess(PageH, ScaledH))
    /\ res.fill => (~DoubleLess(ScaledW, PageW) /\ ~DoubleLess(ScaledH, PageH))
    /\ ExactTimes(res.transform.tx, 2) = ExactSub(PageW, ScaledW)
    /\ ExactTimes(res.transform.ty, 2) = ExactSub(PageH, ScaledH)

\* e * 2^53 <= b for two magnitudes.
WithinRounding(e, b) ==
  /\ \A i \in 1..4 : e[i] = 0
  /\ ~MagLess(b, MagNorm([i \in 1..12 |-> IF i <= 9 THEN e[i + 3] * 32 ELSE 0]))

\* The page is covered up to one rounding: s * c >= P * (1 - 2^-53).
CoversRounded(P, c) ==
  LET short == ExactSub(P, ExactTimes(res.transform.a, c))
  IN  short.neg \/ WithinRounding(short.mag, P.mag)

\* t is (P - s * c) / 2 to within floating-point tolerance: the two differ
\* by 2^-53 * (P + |s * c|) at most.
CentersRounded(t, P, c) ==
  LET sc == ExactTimes(res.transform.a, c)
      e  == ExactSub(ExactTimes(t, 2), ExactSub(P, sc))
  IN  WithinRounding(e.mag, MagNorm([i \in 1..12 |-> (P.mag[i] + sc.mag[i]) * 2]))

\* C11, amended: as stated when the image is scaled to fit; when it is
\* scaled to fill, s*w >= W and s*h >= H up to the rounding of the double
\* division, s*w >= W * (1 - 2^-53) and s*h >= H * (1 - 2^-53); and the
\* translation is ((W - s*w)/2, (H - s*h)/2) to within floating-point
\* tolerance, an error of 2^-53 * (W + |s*w|) and 2^-53 * (H + |s*h|) at
\* most.
ImageScaleFitsOrFillsRounded ==
  ScaleDone =>
    /\ res.transform.d = res.transform.a
    /\ ~res.fill => (~DoubleLess(PageW, ScaledW) /\ ~DoubleLess(PageH, ScaledH))
    /\ res.fill => (CoversRounded(PageW, ContentWidth)
                      /\ CoversRounded(PageH, ContentHeight))
    /\ CentersRounded(res.transform.tx, PageW, ContentWidth)
    /\ CentersRounded(res.transform.ty, PageH, ContentHeight)

\* A rotated image of 5 x 4 pixels has been scaled to fill an A4 page: the
\* scale is the double nearest to H / 5, which is below H / 5, and five
\* times the scale is less than H.
ScaleWitness ==
  /\ ScaleDone
  /\ res.fill
  /\ res.image_rotation = 90
  /\ arg.image_width = 5 /\ arg.image_height = 4
  /\ arg.cupsPageSize[2] = <<6896761, 8192>>
  /\ res.transform.a = DoubleDiv(PageH, 5)
  /\ DoubleLess(ScaledH, PageH)
  /\ DoubleLess(PageW, ScaledW)

-----------------------------------------------------------------------------
(* Properties of the pages of a job.                                       *)

\* The call made last.
LastCall == calls[Len(calls)]

\* end_page has just returned.
PageEnded == IsJob /\ Len(calls) > 0 /\ LastCall.fn = "end_page"

\* C12: when end_page has returned, the buffers its start_page allocated
\* (the output buffer and, for PCL, the compression buffer) are freed: no
\* block is live and at no time are more than one page's buffers live.
EncodeBuffersFreedAtEndPage ==
  /\ PageEnded => (~ras.out_buffer /\ ~ras.comp_buffer /\ ras.live = 0)
  /\ IsJob => ras.live <= 2

\* The start_page calls made before call i of B.
StartsBefore(B, i) == {k \in 1..(i - 1) : B[k].fn = "start_page"}

\* The padding pages of a job are counted as C13 states: page pages + 1 is
\* started exactly after the end of page pages of a copy, in a duplex job of
\* several copies and an odd page count and in no other; every copy then
\* starts on a front side.
PadPagesCounted ==
  IsJob =>
    LET B   == BackendCalls
        P   == Pages(job)
        pad == NeedsBlank(ras.copies, P, ras.Duplex)
    IN  /\ \A i \in 1..Len(B) :
             /\ B[i] = Call("start_page", P + 1, 1) =>
                  (pad /\ i > 1 /\ B[i - 1] = Call("end_page", P, 1))
             /\ (pad /\ i < Len(B) /\ B[i] = Call("end_page", P, 1)) =>
                  B[i + 1] = Call("start_page", P + 1, 1)
             /\ B[i].fn = "start_page" => B[i].a <= (IF pad THEN P + 1 ELSE P)
             /\ (ras.Duplex /\ B[i] = Call("start_page", 1, 1)) =>
                  Cardinality(StartsBefore(B, i)) % 2 = 0
        /\ status = Returned(0) =>
             Cardinality({i \in 1..Len(B) : B[i] = Call("start_page", P + 1, 1)})
               = (IF pad THEN ras.copies ELSE 0)

\* Every line handed to write_line for a padding page is white over the
\* print box.
PadPageLinesBlank ==
  (IsJob /\ pc = "blank_line") =>
    \A i \in 1..(UInt(USub(ras.right, ras.left))) : band_buffer[1][i] = 255

\* C13: in a duplex job of several copies and an odd page count, one blank
\* page, numbered pages + 1, follows the last page of every copy, so that
\* every copy has an even number of pages and starts on a front side; no
\* page is added to any other job.
BlankPagePadsEveryCopy == PadPagesCounted /\ PadPageLinesBlank

-----------------------------------------------------------------------------
(* SpecLine: pcl_write_line (lines 1131-1265) applied to one line of a     *)
(* page.  line holds the bytes from lineptr on, one per pixel; the print   *)
(* box is its first right - left bytes.                                    *)

\* Most bytes of a line handed to pcl_write_line.
MaxLine == 4

LineBytes == {0, 254, 255}

\* ras inside a PCL page: the print box is set, out_blanks lines are pending.
LineRas(left, right, out_blanks) ==
  [ZeroRas EXCEPT !.format = "application/vnd.hp-pcl",
                  !.cupsBitsPerPixel = 1, !.cupsColorSpace = "K",
                  !.dither = "threshold",
                  !.left = U32(left), !.right = U32(right),
                  !.out_blanks = out_blanks,
                  !.out_length = PclOutLength(left, right),
                  !.out_buffer = TRUE, !.comp_buffer = TRUE, !.live = 2]

InitLine ==
  /\ fn = "line"
  /\ fpc = "ready"
  /\ NoJob
  /\ \E n \in 1..MaxLine :
       arg \in [ly : {0, 5}, left : {1}, width : 1..n, out_blanks : {0, 2},
                line : [1..n -> LineBytes]]
  /\ res = <<>>

PclWriteLine ==
  /\ fn = "line" /\ fpc = "ready"
  /\ LET r == LineRas(arg.left, arg.left + arg.width, arg.out_blanks)
     IN  res' = [ras |-> pcl_write_line_ras(r, arg.ly, arg.line),
                 out |-> pcl_write_line_out(r, arg.ly, arg.line)]
  /\ fpc' = "done"
  /\ UNCHANGED <<fn, arg>>
  /\ UNCHANGED jobVars

NextLine == PclWriteLine

SpecLine == InitLine /\ [][NextLine]_vars

LineDone == fn = "line" /\ fpc = "done"

\* pcl_write_line has counted the line as blank and written nothing.
FastPath == res.out = <<>> /\ res.ras.out_blanks = arg.out_blanks + 1

\* C14 as it is stated: the fast path is taken exactly when every byte of
\* the row equals the first one, whatever its value.
FastPathForAnyUniformRow ==
  LineDone => (FastPath <=> \A i \in 1..arg.width : arg.line[i] = arg.line[1])

\* C14, amended: the fast path is taken exactly when every byte of the print
\* box is 255; every other row, a uniform row of another value included, is
\* dithered, compressed and transferred, which resets the counter.
FastPathForWhiteRow ==
  LineDone =>
    /\ FastPath <=> \A i \in 1..arg.width : arg.line[i] = 255
    /\ ~FastPath =>
         /\ res.ras.out_blanks = 0
         /\ res.out # <<>>
         /\ res.out[Len(res.out)].op = "transfer"

\* A row of four bytes 254 has been transferred.
FastPathWitness ==
  /\ LineDone
  /\ arg.width = 4
  /\ \A i \in 1..4 : arg.line[i] = 254
  /\ ~FastPath

-----------------------------------------------------------------------------
(* SpecPclPage: one PCL page, from pcl_start_page through one              *)
(* pcl_write_line per row to pcl_end_page.  arg.rows are the rows of the   *)
(* page as they are handed to pcl_write_line; res.n rows have been written.*)

\* Most lines of the print box of a page.
MaxPageLines == 4

RowKinds == {"white", "ink", "edge"}

\* The bytes of a row of four pixels.
RowOf(kind) ==
  IF kind = "white" THEN <<255, 255, 255, 255>>
  ELSE IF kind = "ink" THEN <<0, 0, 0, 0>>
  ELSE <<255, 255, 255, 0>>

\* ras after xform_setup for a page of 6 pixels by lines + 2 lines at 6 dpi,
\* which leaves a print box of 4 pixels by lines lines.
PageRas(lines, Duplex) ==
  [ZeroRas EXCEPT !.format = "application/vnd.hp-pcl", !.copies = 1,
                  !.Duplex = Duplex,
                  !.HWResolution = <<6, 6>>, !.cupsWidth = 6,
                  !.cupsHeight = lines + 2,
                  !.PageSize = <<72, (lines + 2) * 12>>,
                  !.cupsBitsPerPixel = 8, !.cupsColorSpace = "SW",
                  !.cupsBytesPerLine = 6]

InitPclPage ==
  /\ fn = "pclpage"
  /\ fpc = "ready"
  /\ NoJob
  /\ \E n \in 0..MaxPageLines :
       arg \in [page : {1, 2}, Duplex : BOOLEAN, rows : [1..n -> RowKinds]]
  /\ res = [ras |-> pcl_start_page_ras(PageRas(Len(arg.rows), arg.Duplex), arg.page),
            out |-> <<>>,
            n   |-> 0]

\* pcl_write_line for the next row of the page.
PageWriteLine ==
  /\ fn = "pclpage" /\ fpc = "ready"
  /\ res.n < Len(arg.rows)
  /\ LET row == RowOf(arg.rows[res.n + 1])
         ly  == UInt(res.ras.top) + res.n
     IN  res' = [ras |-> pcl_write_line_ras(res.ras, ly, row),
                 out |-> res.out \o pcl_write_line_out(res.ras, ly, row),
                 n   |-> res.n + 1]
  /\ UNCHANGED <<fn, fpc, arg>>
  /\ UNCHANGED jobVars

\* pcl_end_page once every row has been written.
PageEnd ==
  /\ fn = "pclpage" /\ fpc = "ready"
  /\ res.n = Len(arg.rows)
  /\ res' = [ras |-> pcl_end_page_ras(res.ras, arg.page),
             out |-> res.out \o pcl_end_page_out(res.ras, arg.page),
             n   |-> res.n]
  /\ fpc' = "done"
  /\ UNCHANGED <<fn, arg>>
  /\ UNCHANGED jobVars

NextPclPage == PageWriteLine \/ PageEnd

SpecPclPage == InitPclPage /\ [][NextPclPage]_vars

InPclPage == fn = "pclpage" /\ fpc = "ready"

\* Row j of the page is white over the print box.
RowWhite(j) == \A i \in 1..4 : RowOf(arg.rows[j])[i] = 255

\* The blank rows directly in front of row j.
BlanksBefore(j) ==
  LET inked == {k \in 1..(j - 1) : ~RowWhite(k)}
      last  == IF inked = {} THEN 0 ELSE CHOOSE k \in inked : \A m \in inked : m <= k
  IN  j - 1 - last

\* What the first n rows are to produce: for every row that is not blank, a
\* skip of the blank rows in front of it, if any, and a transfer.
RECURSIVE ExpectedFrom(_, _)
ExpectedFrom(j, n) ==
  IF j > n THEN <<>>
  ELSE (IF RowWhite(j) THEN <<>>
        ELSE (IF BlanksBefore(j) > 0 THEN <<[op |-> "skip", n |-> BlanksBefore(j)]>>
              ELSE <<>>) \o <<[op |-> "transfer", n |-> 0]>>)
       \o ExpectedFrom(j + 1, n)

\* What has been produced: the skips with their counts, the transfers.
Produced ==
  [i \in 1..Len(res.out) |->
     [op |-> res.out[i].op, n |-> IF res.out[i].op = "skip" THEN res.out[i].n ELSE 0]]

RECURSIVE SumSkips(_, _)
SumSkips(toks, i) ==
  IF i > Len(toks) THEN 0
  ELSE (IF toks[i].op = "skip" THEN toks[i].n ELSE 0) + SumSkips(toks, i + 1)

\* C15: a skip is written only directly in front of a transfer and only for
\* one or more blank lines since the last transfer or the page start, with
\* their exact number, and the counter is 0 after the transfer; after every
\* write_line the skips' numbers, the transfers and the pending counter add
\* up to the lines written; a page without a blank line has no skip.
SkipCountsBlankLines ==
  InPclPage =>
    /\ Produced = ExpectedFrom(1, res.n)
    /\ \A i \in 1..Len(res.out) :
         res.out[i].op = "skip" =>
           (res.out[i].n >= 1 /\ i < Len(res.out) /\ res.out[i + 1].op = "transfer")
    /\ res.ras.out_blanks = BlanksBefore(res.n + 1)
    /\ SumSkips(res.out, 1) + Len(SelectSeq(res.out, IsTransfer)) + res.ras.out_blanks
         = res.n
    /\ (\A j \in 1..res.n : ~RowWhite(j)) => SelectSeq(res.out, IsSkip) = <<>>

\* Two blank lines, a line with ink, and a blank line have been written.
SkipWitness ==
  /\ InPclPage
  /\ arg.rows = <<"white", "white", "edge", "white">>
  /\ res.n = 4
  /\ Len(res.out) = 2
  /\ res.out[1] = Tok("skip", 2, <<>>)
  /\ res.ras.out_blanks = 1

-----------------------------------------------------------------------------
(* The back side of a sheet.                                               *)

IsHeader(t) == t.op \in {"header", "back_header"}

IsBackHeader(t) == t.op = "back_header"

IsStartPage(c) == c.fn = "start_page"

\* The band rendered last had the back side transform concatenated.
BackConcatenated ==
  /\ ctm # <<>>
  /\ Len(ctm.m) = 3
  /\ ctm.m[2] = back_transform

\* C16: the back side variant is used exactly for the even pages of a
\* duplex job: raster_start_page writes the back header iff Duplex and the
\* page is even, a band is rendered with the back transform iff Duplex and
\* the page is even, and the back header is written only in a job of more
\* than one page, for which xform_setup has initialised it.
BackSideIffDuplexEven ==
  IsJob =>
    /\ ~IsPcl(ras) =>
         LET H == SelectSeq(sink, IsHeader)
             S == SelectSeq(calls, IsStartPage)
         IN  /\ Len(H) = Len(S)
             /\ \A k \in 1..Len(H) :
                  IsBackHeader(H[k]) <=> (ras.Duplex /\ S[k].a % 2 = 0)
    /\ ctm # <<>> => (BackConcatenated <=> (ras.Duplex /\ ctm.page % 2 = 0))
    /\ SelectSeq(sink, IsBackHeader) # <<>> => Pages(job) > 1

\* A duplex raster job has ended after a back header and a back side band.
BackSideWitness ==
  /\ IsJob
  /\ ~IsPcl(ras)
  /\ status = Returned(0)
  /\ ras.Duplex
  /\ SelectSeq(sink, IsBackHeader) # <<>>
  /\ BackConcatenated
  /\ ctm.page = 2

-----------------------------------------------------------------------------
(* The compression buffer.                                                 *)

CompBufferSizeOfLine(out_length) == out_length

\* Line 1123: comp_buffer = malloc(2 * out_length + 2).
CompBufferSize(out_length) == 2 * out_length + 2

\* C17: the compressed form of a packed line of out_length bytes is never
\* longer than 2 * out_length + 2 bytes, the size of comp_buffer.
CompressedFitsBuffer ==
  (fn = "compress" /\ fpc = "done") => Len(res) <= CompBufferSize(Len(arg))

\* Two different bytes have been compressed into two records of two bytes:
\* the compressed line is twice as long as the line.
ExpansionWitness ==
  /\ fn = "compress" /\ fpc = "done"
  /\ Len(arg) = 2
  /\ arg[1] # arg[2]
  /\ Len(res) = 2 * Len(arg)

-----------------------------------------------------------------------------
(* The records of a compressed line.                                       *)

RECURSIVE RecordsFrom(_, _, _, _)
\* The compressed bytes comp from index i on, cut into records at their
\* control bytes: ctl the control byte, data the bytes that follow it (one
\* byte for a control byte above 126), at the index of the line the record
\* starts at, count the bytes of the line it stands for, whole whether all
\* its bytes are there.
RecordsFrom(comp, i, at, recs) ==
  IF i > Len(comp) THEN recs
  ELSE LET c     == comp[i]
           count == IF c > 126 THEN 257 - c ELSE c + 1
           last  == IF c > 126 THEN i + 1 ELSE i + c + 1
       IN  IF last > Len(comp)
           THEN Append(recs, [ctl |-> c, data |-> SubSeq(comp, i + 1, Len(comp)),
                              at |-> at, count |-> count, whole |-> FALSE])
           ELSE RecordsFrom(comp, last + 1, at + count,
                            Append(recs, [ctl |-> c, data |-> SubSeq(comp, i + 1, last),
                                          at |-> at, count |-> count, whole |-> TRUE]))

Records == RecordsFrom(res, 1, 1, <<>>)

\* A record is a repeated run of the line: 2 to 127 equal bytes.
IsRepeat(r) ==
  /\ r.ctl >= 130
  /\ r.count \in 2..127
  /\ r.ctl = 257 - r.count
  /\ r.at + r.count - 1 <= Len(arg)
  /\ \A k \in r.at..(r.at + r.count - 1) : arg[k] = r.data[1]

\* A record is a literal run of the line: 1 to 127 bytes, the last byte of
\* the line not among them.
IsLiteral(r) ==
  /\ r.ctl <= 126
  /\ r.count \in 1..127
  /\ r.ctl = r.count - 1
  /\ r.at + r.count - 1 < Len(arg)
  /\ r.data = SubSeq(arg, r.at, r.at + r.count - 1)

\* A record is the last byte of the line on its own.
IsLoneLast(r) ==
  /\ r.ctl = 0
  /\ r.at = Len(arg)
  /\ r.data = <<arg[Len(arg)]>>

\* C18: every record of the compressed line is a repeated run of 2 to 127
\* bytes written as (257 - count, byte), a literal run of 1 to 127 bytes
\* written as (count - 1, bytes) that leaves out the last byte of the line,
\* or the last byte alone written as (0, byte); no control byte is 127, 128
\* or 129; the records cover the line from left to right, each byte once.
RecordsWellFormed ==
  (fn = "compress" /\ fpc = "done") =>
    /\ \A k \in 1..Len(Records) :
         /\ Records[k].whole
         /\ Records[k].ctl \notin 127..129
         /\ IsRepeat(Records[k]) \/ IsLiteral(Records[k]) \/ IsLoneLast(Records[k])
         /\ Records[k].at = IF k = 1 THEN 1 ELSE Records[k - 1].at + Records[k - 1].count
    /\ Len(arg) > 0 =>
         /\ Len(Records) > 0
         /\ Records[Len(Records)].at + Records[Len(Records)].count = Len(arg) + 1
    /\ Len(arg) = 0 => res = <<>>

\* A line has been compressed into a repeated run of 127 bytes, a literal
\* run of 127 bytes and, at its end, a lone byte.
RecordsWitness ==
  /\ fn = "compress" /\ fpc = "done"
  /\ \E k \in 1..Len(Records) : IsRepeat(Records[k]) /\ Records[k].count = 127
  /\ \E k \in 1..Len(Records) : IsLiteral(Records[k]) /\ Records[k].count = 127
  /\ IsLoneLast(Records[Len(Records)])

-----------------------------------------------------------------------------
(* The packing of the dithered bits.                                       *)

\* Lines 1357-1361 (raster_start_page): out_length = cupsBytesPerLine, which
\* libcups sets to (cupsWidth * cupsBitsPerPixel + 7) / 8, for pixels of 1
\* bit.
RasterOutLength(cupsWidth) == (cupsWidth * 1 + 7) \div 8

\* out_length of the backend; the raster print box is the whole line
\* (lines 1347-1350).
OutLength(backend, left, right) ==
  IF backend = "pcl" THEN PclOutLength(left, right)
  ELSE RasterOutLength(right - left)

\* Whether the code sets the bit of pixel i (from 0) of the print box.
Decision(a, i) ==
  PixelSet(BackendCompare(a.backend, a.cupsColorSpace), SampleOf(a, i),
           DitherAt(a.dither, a.y % 64, (a.left + i) % 64))

\* C19: the dither decisions are packed from the most significant bit, 8 to
\* a byte: pixel i of the print box is bit 7 - (i mod 8) of byte i div 8; a
\* partial last byte is written with its unused low bits 0; the bytes
\* written are exactly ceil((right - left) / 8), never more than out_length.
DitherPackedMsbFirst ==
  DitherDone =>
    /\ Len(res) * 8 >= arg.n
    /\ (Len(res) - 1) * 8 < arg.n
    /\ Len(res) <= OutLength(arg.backend, arg.left, arg.left + arg.n)
    /\ \A k \in 1..Len(res) : res[k] \in 0..255
    /\ \A i \in 0..(arg.n - 1) : OutBit(res, i) <=> Decision(arg, i)
    /\ \A i \in arg.n..(8 * Len(res) - 1) : ~OutBit(res, i)

\* A line of 9 pixels has been packed into two bytes: the ninth pixel is the
\* top bit of the second byte, and the first byte has a clear bit.
PackingWitness ==
  /\ DitherDone
  /\ arg.n = 9
  /\ Len(res) = 2
  /\ res[2] = 128
  /\ res[1] \notin {0, 255}

-----------------------------------------------------------------------------
(* The end of a PCL page.                                                  *)

IsEndPage(c) == c.fn = "end_page"

IsEndGraphics(t) == t.op = "end_graphics"

IsFormFeed(t) == t.op = "formfeed"

\* The pages ended so far, in order.
EndedPages == SelectSeq(calls, IsEndPage)

\* The indexes of sink that hold an end of graphics, in order.
RECURSIVE EndGraphicsAt(_)
EndGraphicsAt(i) ==
  IF i > Len(sink) THEN <<>>
  ELSE (IF IsEndGraphics(sink[i]) THEN <<i>> ELSE <<>>) \o EndGraphicsAt(i + 1)

\* C20: pcl_end_page always writes the end of graphics, and a form feed
\* unless the job is duplex and the page is odd: in a duplex job there is
\* one form feed for each back side ended, that is for each sheet with both
\* sides done, and in a one-sided job one for each page ended.
FormFeedPerSheet ==
  (IsJob /\ IsPcl(ras)) =>
    LET at == EndGraphicsAt(1)
        ff == SelectSeq(sink, IsFormFeed)
    IN  /\ Len(at) = Len(EndedPages)
        /\ \A k \in 1..Len(at) :
             (at[k] < Len(sink) /\ IsFormFeed(sink[at[k] + 1]))
               <=> ~(ras.Duplex /\ EndedPages[k].a % 2 = 1)
        /\ \A i \in 1..Len(sink) :
             IsFormFeed(sink[i]) => (i > 1 /\ IsEndGraphics(sink[i - 1]))
        /\ ras.Duplex =>
             Len(ff) = Cardinality({k \in 1..Len(EndedPages) : EndedPages[k].a % 2 = 0})
        /\ ~ras.Duplex => Len(ff) = Len(EndedPages)

\* A duplex PCL job of three pages has ended: three pages were ended and
\* one form feed written.
FormFeedWitness ==
  /\ IsJob /\ IsPcl(ras)
  /\ ras.Duplex
  /\ status = Returned(0)
  /\ Len(EndedPages) = 3
  /\ Len(SelectSeq(sink, IsFormFeed)) = 1

-----------------------------------------------------------------------------
(* SpecRes: the resolution xform_setup selects (lines 2772-2814), for      *)
(* every list of up to MaxRes supported resolutions and every value of the *)
(* "printer-resolution" and "print-quality" options of the sets below.     *)

\* Most supported resolutions of a list.
MaxRes == 3

ResValues == {"6dpi", "12dpi", "6x12dpi"}

\* The bytes of the strings of the model.
StrBytes(s) ==
  IF s = "6dpi" THEN <<54, 100, 112, 105>>
  ELSE IF s = "12dpi" THEN <<49, 50, 100, 112, 105>>
  ELSE IF s = "6x12dpi" THEN <<54, 120, 49, 50, 100, 112, 105>>
  ELSE <<57, 57, 100, 112, 105>>

\* strcmp(a, b) < 0.
StrLess(a, b) ==
  LET sa == StrBytes(a)
      sb == StrBytes(b)
  IN  \E k \in 1..Len(sb) :
        /\ \A i \in 1..(k - 1) : i <= Len(sa) /\ sa[i] = sb[i]
        /\ (k > Len(sa) \/ sa[k] < sb[k])

\* cupsArrayAdd to an array that compares with strcmp: e goes after the
\* elements that are less; a value the array holds is not added again.
ArrayInsert(a, e) ==
  IF \E i \in 1..Len(a) : a[i] = e THEN a
  ELSE LET k == Cardinality({i \in 1..Len(a) : StrLess(a[i], e)})
       IN  SubSeq(a, 1, k) \o <<e>> \o SubSeq(a, k + 1, Len(a))

RECURSIVE AddStrings(_, _, _)
AddStrings(a, list, i) ==
  IF i > Len(list) THEN a
  ELSE AddStrings(ArrayInsert(a, list[i]), list, i + 1)

\* Line 2772: _cupsArrayNewStrings (libcups) makes the array of the
\* comma-separated values: each value once, in the order of strcmp.
NewStrings(list) == AddStrings(<<>>, list, 1)

ResLists == UNION {[1..n -> ResValues] : n \in 0..MaxRes}

ResOptions == {NULL, "6dpi", "12dpi", "99dpi"}

QualityOptions ==
  {[set |-> FALSE, val |-> 0]}
    \cup {[set |-> TRUE, val |-> v] : v \in {0, 3, 4, 5, 6}}

InitRes ==
  /\ fn = "resolution"
  /\ fpc = "ready"
  /\ NoJob
  /\ arg \in [resolutions : ResLists, printer_resolution : ResOptions,
              print_quality : QualityOptions]
  /\ res = <<>>

\* Lines 2772-2814: printer_resolution after the selection, and whether
\* xform_setup returns -1 at line 2813.
ChooseResolution ==
  /\ fn = "resolution" /\ fpc = "ready"
  /\ LET r == SelectResolution(NewStrings(arg.resolutions), arg.printer_resolution,
                               arg.print_quality)
     IN  res' = [printer_resolution |-> r, failed |-> (r = NULL)]
  /\ fpc' = "done"
  /\ UNCHANGED <<fn, arg>>
  /\ UNCHANGED jobVars

NextRes == ChooseResolution

SpecRes == InitRes /\ [][NextRes]_vars

ResDone == fn = "resolution" /\ fpc = "done"

Supported(list) == {list[i] : i \in 1..Len(list)}

\* C21: an explicit printer-resolution is used iff it is in the supported
\* list; otherwise print-quality draft, normal, high selects the first, the
\* middle (index count / 2) and the last element of the list; with nothing
\* selected the middle element is used; the set-up fails iff the list is
\* empty; the resolution selected is always in the list.
ResolutionSelection ==
  ResDone =>
    LET list == arg.resolutions
        n    == Len(list)
        e    == arg.printer_resolution
        q    == arg.print_quality
    IN  /\ res.failed <=> n = 0
        /\ ~res.failed => res.printer_resolution \in Supported(list)
        /\ n > 0 =>
             res.printer_resolution =
               IF e # NULL /\ e \in Supported(list) THEN e
               ELSE IF q.set /\ q.val = 3 THEN list[1]
               ELSE IF q.set /\ q.val = 5 THEN list[n]
               ELSE list[(n \div 2) + 1]

\* What holds: the selection is made in the array of line 2772, the values
\* of the list in the order of strcmp, not in the list as it was given.
ResolutionSelectionInArray ==
  ResDone =>
    LET array == NewStrings(arg.resolutions)
        n     == Len(array)
        e     == arg.printer_resolution
        q     == arg.print_quality
    IN  /\ res.failed <=> Len(arg.resolutions) = 0
        /\ ~res.failed => res.printer_resolution \in Supported(arg.resolutions)
        /\ Supported(array) = Supported(arg.resolutions)
        /\ \A i \in 1..(n - 1) : StrLess(array[i], array[i + 1])
        /\ n > 0 =>
             res.printer_resolution =
               IF e # NULL /\ e \in Supported(array) THEN e
               ELSE IF q.set /\ q.val = 3 THEN array[1]
               ELSE IF q.set /\ q.val = 5 THEN array[n]
               ELSE array[(n \div 2) + 1]

\* An unsupported explicit resolution has been ignored and the draft
\* quality has selected 12dpi from the list 6dpi, 12dpi.
ResolutionWitness ==
  /\ ResDone
  /\ arg.printer_resolution = "99dpi"
  /\ arg.print_quality = [set |-> TRUE, val |-> 3]
  /\ arg.resolutions = <<"6dpi", "12dpi">>
  /\ res.printer_resolution = "12dpi"

-----------------------------------------------------------------------------
(* SpecType: the pixel type xform_setup selects (lines 2836-2932), for     *)
(* every set of advertised types, colour flag, print-color-mode and pq.    *)

\* The types the HAVE_COREGRAPHICS build knows.
KnownTypes ==
  {"adobe-rgb_16", "adobe-rgb_8", "srgb_8", "cmyk_8",
   "black_1", "sgray_1", "black_8", "sgray_8"}

GrayTypes == {"black_1", "sgray_1", "black_8", "sgray_8"}

\* What a printer may advertise: the known types, one of them in capitals,
\* and a type the build does not know.
AdvertisedTypes == KnownTypes \cup {"SGRAY_8", "rgb_16"}

\* Line 2855: type_array compares with strcasecmp, so a type is found
\* whatever the case it is advertised in.
FoldCase(t) == IF t = "SGRAY_8" THEN "sgray_8" ELSE t

TypeArray(types) == {FoldCase(t) : t \in types}

ColorModes ==
  {NULL, "color", "monochrome", "process-monochrome", "auto-monochrome",
   "bi-level", "process-bi-level"}

InitType ==
  /\ fn = "type"
  /\ fpc = "ready"
  /\ NoJob
  /\ arg \in [types : SUBSET AdvertisedTypes, color : BOOLEAN,
              print_color_mode : ColorModes, pq : {0, 3, 4, 5}]
  /\ res = <<>>

\* Lines 2836-2932: type after the selection, and whether xform_setup
\* returns -1 at line 2931.
ChooseType ==
  /\ fn = "type" /\ fpc = "ready"
  /\ LET t == SelectType(TypeArray(arg.types),
                         ColorAfterMode(arg.color, arg.print_color_mode),
                         QualityAfterMode(arg.pq, arg.print_color_mode))
     IN  res' = [type |-> t, failed |-> (t = NULL)]
  /\ fpc' = "done"
  /\ UNCHANGED <<fn, arg>>
  /\ UNCHANGED jobVars

NextType == ChooseType

SpecType == InitType /\ [][NextType]_vars

TypeDone == fn = "type" /\ fpc = "done"

\* The known types the printer advertises, in whatever case.
Usable == TypeArray(arg.types) \cap KnownTypes

\* C22: the type selected is one the printer advertises, for every colour
\* flag, colour mode and quality, and the set-up fails for want of a type
\* iff the printer advertises none of the known types.
TypeIsAdvertised ==
  TypeDone =>
    /\ ~res.failed => \E t \in arg.types : FoldCase(t) = res.type
    /\ res.failed <=> Usable = {}

\* A colour document at high quality on a printer without any RGB type:
\* an advertised gray type is selected, not a type of the high quality list.
TypeWitness ==
  /\ TypeDone
  /\ arg.color /\ arg.pq = 5 /\ arg.print_color_mode = NULL
  /\ arg.types = {"SGRAY_8", "black_1", "rgb_16"}
  /\ res.type = "sgray_8"

IsMonochrome == arg.print_color_mode \in Monochromes \cup BiLevels

\* The first type of the sequence order that the printer advertises.
RECURSIVE FirstUsable(_, _)
FirstUsable(order, i) ==
  IF i > Len(order) THEN NULL
  ELSE IF order[i] \in Usable THEN order[i]
  ELSE FirstUsable(order, i + 1)

\* C23 as stated: with a monochrome or bi-level colour mode the type is a
\* gray type whenever the set-up succeeds.
MonochromeAlwaysGray ==
  (TypeDone /\ IsMonochrome /\ ~res.failed) => res.type \in GrayTypes

\* C23, amended: with a monochrome or bi-level colour mode the type is a
\* gray type whenever the printer advertises one, and only then; bi-level,
\* like draft quality, takes the first advertised of black_1, sgray_1,
\* black_8, sgray_8, and the other qualities the first of black_8, sgray_8,
\* black_1, sgray_1; a printer without a gray type gets a colour type.
MonochromeGrayIfAdvertised ==
  (TypeDone /\ IsMonochrome) =>
    /\ (res.type \in GrayTypes) <=> (Usable \cap GrayTypes # {})
    /\ (Usable \cap GrayTypes # {}) =>
         res.type =
           IF arg.print_color_mode \in BiLevels \/ arg.pq = 3
           THEN FirstUsable(<<"black_1", "sgray_1", "black_8", "sgray_8">>, 1)
           ELSE FirstUsable(<<"black_8", "sgray_8", "black_1", "sgray_1">>, 1)
    /\ (Usable \cap GrayTypes = {} /\ ~res.failed) =>
         res.type = FirstUsable(<<"srgb_8", "adobe-rgb_8", "adobe-rgb_16", "cmyk_8">>, 1)

\* A bi-level job at high quality, for a colour document, has been given
\* the 1-bit type of a printer that also advertises 8-bit gray and colour.
MonochromeWitness ==
  /\ TypeDone
  /\ arg.print_color_mode = "bi-level" /\ arg.color /\ arg.pq = 5
  /\ arg.types = {"srgb_8", "sgray_8", "sgray_1"}
  /\ res.type = "sgray_1"

-----------------------------------------------------------------------------
(* The scale policy of print-scaling.                                      *)

\* The larger of W/w and H/h, and the smaller of (W-36)/w and (H-36)/h, in
\* double, for the content size the page sees.
FillScale ==
  LET xs == DoubleDiv(PageW, ContentWidth)
      ys == DoubleDiv(PageH, ContentHeight)
  IN  IF DoubleLess(xs, ys) THEN ys ELSE xs

FitScale ==
  LET xs == DoubleDiv(DoubleSub(PageW, DoubleOf(36)), ContentWidth)
      ys == DoubleDiv(DoubleSub(PageH, DoubleOf(36)), ContentHeight)
  IN  IF DoubleLess(ys, xs) THEN ys ELSE xs

\* print-scaling asks for the fill scale.
AsksFill ==
  arg.print_scaling = "fill" \/ (arg.print_scaling = "auto" /\ arg.borderless)

\* C24: print-scaling "none" places the content at 1:1; "fill", or "auto"
\* on borderless output, gives the fill scale; every other case the fit
\* scale.
PrintScalingPolicy ==
  ScaleDone =>
    /\ arg.print_scaling = "none" =>
         (res.transform.a = DoubleOf(1) /\ res.transform.d = DoubleOf(1))
    /\ (arg.print_scaling # "none" /\ AsksFill) =>
         (res.transform.a = FillScale /\ res.transform.d = FillScale)
    /\ (arg.print_scaling # "none" /\ ~AsksFill) =>
         (res.transform.a = FitScale /\ res.transform.d = FitScale)

\* What the code does with "none": the fit scale, as for "fit".
PrintScalingNoneFits ==
  ScaleDone =>
    /\ AsksFill => (res.transform.a = FillScale /\ res.transform.d = FillScale)
    /\ ~AsksFill => (res.transform.a = FitScale /\ res.transform.d = FitScale)

-----------------------------------------------------------------------------
(* pack_rgba and pack_rgba16, lines 803-880.  The row is a sequence of     *)
(* bytes (byte k of the row is mem[k + 1]); an unsigned is 32 bits, held   *)
(* as its four bytes, least significant first, as the little-endian        *)
(* processors of the CoreGraphics build store it.                          *)

\* Most pixels of a row.
MaxPixels == 9

RECURSIVE OrBits(_, _, _)
\* a | b for two bytes, bit k upwards.
OrBits(a, b, k) ==
  IF k > 7 THEN 0
  ELSE (IF (a \div (2 ^ k)) % 2 = 1 \/ (b \div (2 ^ k)) % 2 = 1 THEN 2 ^ k ELSE 0)
       + OrBits(a, b, k + 1)

\* v | w, v & mask, v << 8k and v >> 8k for 32-bit values; what is shifted
\* out of the 32 bits is lost.
Or32(v, w) == [i \in 1..4 |-> OrBits(v[i], w[i], 0)]

And32(v, mask) == [i \in 1..4 |-> IF mask[i] = 255 THEN v[i] ELSE 0]

Shl32(v, k) == [i \in 1..4 |-> IF i - k >= 1 THEN v[i - k] ELSE 0]

Shr32(v, k) == [i \in 1..4 |-> IF i + k <= 4 THEN v[i + k] ELSE 0]

\* Lines 41-46.
XFORM_RED_MASK == <<255, 0, 0, 0>>
XFORM_GREEN_MASK == <<0, 255, 0, 0>>
XFORM_BLUE_MASK == <<0, 0, 255, 0>>
XFORM_RGB_MASK == Or32(Or32(XFORM_RED_MASK, XFORM_GREEN_MASK), XFORM_BLUE_MASK)
XFORM_BG_MASK == Or32(XFORM_BLUE_MASK, XFORM_GREEN_MASK)
XFORM_RG_MASK == Or32(XFORM_RED_MASK, XFORM_GREEN_MASK)

\* 0x0000ffff and 0xffff0000 of lines 870-871.
LOW16 == <<255, 255, 0, 0>>
HIGH16 == <<0, 0, 255, 255>>

\* The unsigned at byte offset p of the row, and the row after storing one.
Load32(mem, p) == <<mem[p + 1], mem[p + 2], mem[p + 3], mem[p + 4]>>

Store32(mem, p, v) ==
  [k \in 1..Len(mem) |-> IF k - 1 \in p..(p + 3) THEN v[k - p] ELSE mem[k]]

Quad3Unshifted(q0, q1, q2, q3) ==
  << Or32(And32(q0, XFORM_RGB_MASK), Shl32(q1, 3)),
     Or32(And32(q1, XFORM_BG_MASK), Shl32(And32(q2, XFORM_RG_MASK), 2)),
     Or32(Shr32(And32(q2, XFORM_BLUE_MASK), 2), Shl32(q3, 1)) >>

\* Lines 824-827: the three values stored for the four pixels q0..q3.
Quad3(q0, q1, q2, q3) ==
  << Or32(And32(q0, XFORM_RGB_MASK), Shl32(q1, 3)),
     Or32(Shr32(And32(q1, XFORM_BG_MASK), 1), Shl32(And32(q2, XFORM_RG_MASK), 2)),
     Or32(Shr32(And32(q2, XFORM_BLUE_MASK), 2), Shl32(q3, 1)) >>

\* Lines 869-871: the three values stored for the two pixels f0 f1, f2 f3.
Pair3(f0, f1, f2, f3) ==
  << f0,
     Or32(And32(f1, LOW16), Shl32(And32(f2, LOW16), 2)),
     Or32(Shr32(And32(f2, HIGH16), 2), Shl32(And32(f3, LOW16), 2)) >>

\* The bytes of the row before it is packed.
FillByte(fill, k) ==
  IF fill = "index" THEN (k + 1) % 256
  ELSE IF fill = "mix" THEN (k * 37 + 11) % 256
  ELSE 255 - (k % 7)

RowBytes(a) ==
  [k \in 1..(a.num_pixels * (IF a.kind = "rgba" THEN 4 ELSE 8)) |-> FillByte(a.fill, k - 1)]

InitPack ==
  /\ fn = "pack"
  /\ fpc = "ready"
  /\ NoJob
  /\ arg \in [kind : {"rgba", "rgba16"}, num_pixels : 0..MaxPixels,
              fill : {"index", "mix", "high"}]
  /\ res = <<>>

\* The state of a statement that loads the bytes rd and then stores the
\* bytes wr: stale tells that a byte was loaded after a store to it.
Touch(st, rd, wr) ==
  [st EXCEPT !.stale = @ \/ (rd \cap st.written # {}),
             !.written = @ \cup wr]

\* Lines 807-816 and 860-863: the locals at entry; src is quad_row, src_byte
\* and from, dest is dest and dest_byte, both as byte offsets into the row.
PackEnter ==
  /\ fn = "pack" /\ fpc = "ready"
  /\ res' = [mem |-> RowBytes(arg), src |-> 0, dest |-> 0,
             num_quads |-> arg.num_pixels \div 4,
             leftover_pixels |-> arg.num_pixels % 4,
             num_pixels |-> arg.num_pixels,
             written |-> {}, stale |-> FALSE]
  /\ fpc' = "loop"
  /\ UNCHANGED <<fn, arg>>
  /\ UNCHANGED jobVars

\* Lines 822-830: one turn of the loop of pack_rgba.  Each of the three
\* statements loads its operands before it stores.
PackQuad ==
  /\ fn = "pack" /\ fpc = "loop" /\ arg.kind = "rgba"
  /\ res.num_quads > 0
  /\ LET s  == res.src
         d  == res.dest
         w1 == Quad3(Load32(res.mem, s), Load32(res.mem, s + 4), <<0, 0, 0, 0>>,
                     <<0, 0, 0, 0>>)[1]
         m1 == Store32(res.mem, d, w1)
         t1 == Touch(res, s..(s + 7), d..(d + 3))
         w2 == Quad3(<<0, 0, 0, 0>>, Load32(m1, s + 4), Load32(m1, s + 8),
                     <<0, 0, 0, 0>>)[2]
         m2 == Store32(m1, d + 4, w2)
         t2 == Touch(t1, (s + 4)..(s + 11), (d + 4)..(d + 7))
         w3 == Quad3(<<0, 0, 0, 0>>, <<0, 0, 0, 0>>, Load32(m2, s + 8),
                     Load32(m2, s + 12))[3]
         m3 == Store32(m2, d + 8, w3)
         t3 == Touch(t2, (s + 8)..(s + 15), (d + 8)..(d + 11))
     IN  res' = [t3 EXCEPT !.mem = m3, !.src = s + 16, !.dest = d + 12,
                           !.num_quads = @ - 1]
  /\ UNCHANGED <<fn, fpc, arg>>
  /\ UNCHANGED jobVars

\* Lines 839-846: one turn of the loop of the leftover pixels.
PackLeftover ==
  /\ fn = "pack" /\ fpc = "loop" /\ arg.kind = "rgba"
  /\ res.num_quads = 0 /\ res.leftover_pixels > 0
  /\ LET s  == res.src
         d  == res.dest
         m1 == [res.mem EXCEPT ![d + 1] = res.mem[s + 1]]
         t1 == Touch(res, {s}, {d})
         m2 == [m1 EXCEPT ![d + 2] = m1[s + 2]]
         t2 == Touch(t1, {s + 1}, {d + 1})
         m3 == [m2 EXCEPT ![d + 3] = m2[s + 3]]
         t3 == Touch(t2, {s + 2}, {d + 2})
     IN  res' = [t3 EXCEPT !.mem = m3, !.src = s + 4, !.dest = d + 3,
                           !.leftover_pixels = @ - 1]
  /\ UNCHANGED <<fn, fpc, arg>>
  /\ UNCHANGED jobVars

\* Line 847: pack_rgba returns.
PackReturn ==
  /\ fn = "pack" /\ fpc = "loop" /\ arg.kind = "rgba"
  /\ res.num_quads = 0 /\ res.leftover_pixels = 0
  /\ fpc' = "done"
  /\ UNCHANGED <<fn, arg, res>>
  /\ UNCHANGED jobVars

\* Lines 867-874: one turn of the loop of pack_rgba16.
Pack16Pair ==
  /\ fn = "pack" /\ fpc = "loop" /\ arg.kind = "rgba16"
  /\ res.num_pixels > 1
  /\ LET s  == res.src
         d  == res.dest
         z  == <<0, 0, 0, 0>>
         w1 == Pair3(Load32(res.mem, s), z, z, z)[1]
         m1 == Store32(res.mem, d, w1)
         t1 == Touch(res, s..(s + 3), d..(d + 3))
         w2 == Pair3(z, Load32(m1, s + 4), Load32(m1, s + 8), z)[2]
         m2 == Store32(m1, d + 4, w2)
         t2 == Touch(t1, (s + 4)..(s + 11), (d + 4)..(d + 7))
         w3 == Pair3(z, z, Load32(m2, s + 8), Load32(m2, s + 12))[3]
         m3 == Store32(m2, d + 8, w3)
         t3 == Touch(t2, (s + 8)..(s + 15), (d + 8)..(d + 11))
     IN  res' = [t3 EXCEPT !.mem = m3, !.src = s + 16, !.dest = d + 12,
                           !.num_pixels = @ - 2]
  /\ UNCHANGED <<fn, fpc, arg>>
  /\ UNCHANGED jobVars

\* Lines 876-880: the last pixel of an odd number, and the return.
Pack16Last ==
  /\ fn = "pack" /\ fpc = "loop" /\ arg.kind = "rgba16"
  /\ res.num_pixels = 1
  /\ LET s  == res.src
         d  == res.dest
         m1 == Store32(res.mem, d, Load32(res.mem, s))
         t1 == Touch(res, s..(s + 3), d..(d + 3))
         m2 == Store32(m1, d + 4, Load32(m1, s + 4))
         t2 == Touch(t1, (s + 4)..(s + 7), (d + 4)..(d + 7))
     IN  res' = [t2 EXCEPT !.mem = m2, !.src = s + 8, !.dest = d + 8]
  /\ fpc' = "done"
  /\ UNCHANGED <<fn, arg>>
  /\ UNCHANGED jobVars

\* Lines 876 and 881: an even number of pixels; pack_rgba16 returns.
Pack16Return ==
  /\ fn = "pack" /\ fpc = "loop" /\ arg.kind = "rgba16"
  /\ res.num_pixels = 0
  /\ fpc' = "done"
  /\ UNCHANGED <<fn, arg, res>>
  /\ UNCHANGED jobVars

NextPack ==
  \/ PackEnter \/ PackQuad \/ PackLeftover \/ PackReturn
  \/ Pack16Pair \/ Pack16Last \/ Pack16Return

SpecPack == InitPack /\ [][NextPack]_vars

PackDone == fn = "pack" /\ fpc = "done"

\* C25: pack_rgba leaves byte 3i+c of the row equal to the original byte
\* 4i+c, and pack_rgba16 the 16-bit word 3i+c equal to the original word
\* 4i+c, for every pixel i and c in 0..2, whatever the number of pixels;
\* neither loads a byte after having stored to it, nor stores outside the
\* original row of 4n (8n) bytes.
PackDropsPadding ==
  /\ PackDone =>
       LET orig == RowBytes(arg)
           n    == arg.num_pixels
       IN  IF arg.kind = "rgba"
           THEN \A i \in 0..(n - 1) : \A c \in 0..2 :
                  res.mem[3 * i + c + 1] = orig[4 * i + c + 1]
           ELSE \A i \in 0..(n - 1) : \A c \in 0..2 : \A b \in 0..1 :
                  res.mem[2 * (3 * i + c) + b + 1] = orig[2 * (4 * i + c) + b + 1]
  /\ (fn = "pack" /\ fpc \in {"loop", "done"}) =>
       /\ ~res.stale
       /\ res.written \subseteq 0..(Len(RowBytes(arg)) - 1)
       /\ Len(res.mem) = Len(RowBytes(arg))

\* Rows of 7 pixels of 8 bits and of 16 bits, which have whole groups and
\* leftover pixels, have been packed.
PackWitness ==
  /\ PackDone
  /\ arg.num_pixels = 7
  /\ arg.fill = "mix"
  /\ res.written # {}
  /\ res.mem # RowBytes(arg)

-----------------------------------------------------------------------------
(* SpecPclStart: pcl_start_page (lines 995-1124) on the header fields of a *)
(* page.                                                                   *)

StartDpis == {<<300, 300>>, <<600, 600>>, <<1200, 600>>}

\* Media sizes in hundredths of millimetres, as pwgMediaForPWG gives them:
\* Letter, A4, a page a tenth of a millimetre longer than A4, a page of
\* that length 100 mm wide, A5, Legal.
StartMedia ==
  {<<21590, 27940>>, <<21000, 29700>>, <<21000, 29710>>, <<10000, 29710>>,
   <<14800, 21000>>, <<21590, 35560>>}

StartSides ==
  {[Duplex |-> FALSE, Tumble |-> FALSE], [Duplex |-> TRUE, Tumble |-> FALSE],
   [Duplex |-> TRUE, Tumble |-> TRUE]}

\* The header of a page of media at dpi, as xform_setup leaves it:
\* cupsRasterInitPWGHeader (line 2949) computes the size in points and in
\* pixels from the size in hundredths of millimetres, rounding down, so
\* that A4 is 595 by 841 points.
StartRas(a) ==
  [ZeroRas EXCEPT !.format = "application/vnd.hp-pcl", !.copies = 1,
                  !.Duplex = a.sides.Duplex, !.Tumble = a.sides.Tumble,
                  !.HWResolution = a.dpi,
                  !.cupsWidth = (a.media[1] * a.dpi[1]) \div 2540,
                  !.cupsHeight = (a.media[2] * a.dpi[2]) \div 2540,
                  !.PageSize = <<(72 * a.media[1]) \div 2540,
                                 (72 * a.media[2]) \div 2540>>,
                  !.cupsBitsPerPixel = 8, !.cupsColorSpace = "SW",
                  !.cupsBytesPerLine = (a.media[1] * a.dpi[1]) \div 2540]

InitPclStart ==
  /\ fn = "pcl_start_page"
  /\ fpc = "ready"
  /\ NoJob
  /\ arg \in [dpi : StartDpis, media : StartMedia, sides : StartSides,
              page : 1..MaxPages]
  /\ res = <<>>

\* pcl_start_page: the print box, what is written, and ras.
PclStartPage ==
  /\ fn = "pcl_start_page" /\ fpc = "ready"
  /\ LET r0 == StartRas(arg)
         r1 == pcl_start_page_ras(r0, arg.page)
     IN  res' = [box |-> PclBox(r0.HWResolution, r0.cupsWidth, r0.cupsHeight,
                                r0.PageSize[2]),
                 ras |-> r1,
                 out |-> pcl_start_page_out(r1, arg.page)]
  /\ fpc' = "done"
  /\ UNCHANGED <<fn, arg>>
  /\ UNCHANGED jobVars

NextPclStart == PclStartPage

SpecPclStart == InitPclStart /\ [][NextPclStart]_vars

PclStartDone == fn = "pcl_start_page" /\ fpc = "done"

IsDuplexMode(t) == t.op = "duplex_mode"

\* C26: on a front page of a duplex job pcl_start_page writes duplex mode 1
\* when Tumble is off and mode 2 when Tumble is on; it writes no duplex mode
\* in a one-sided job or on a back page.
DuplexModeEncodesEdge ==
  PclStartDone =>
    LET modes == SelectSeq(res.out, IsDuplexMode)
    IN  IF arg.sides.Duplex /\ arg.page % 2 = 1
        THEN /\ Len(modes) = 1
             /\ modes[1].n = IF arg.sides.Tumble THEN 2 ELSE 1
        ELSE modes = <<>>

\* What the code writes: mode 1 on every front page of a duplex job.
DuplexModeAlwaysOne ==
  PclStartDone =>
    LET modes == SelectSeq(res.out, IsDuplexMode)
    IN  IF arg.sides.Duplex /\ arg.page % 2 = 1
        THEN modes = <<Tok("duplex_mode", 1, <<>>)>>
        ELSE modes = <<>>

\* C29: after pcl_start_page left < right <= cupsWidth and
\* top < bottom <= cupsHeight, without wrap-around, for every page size and
\* resolution, so out_length is at least 1 and at most ceil(cupsWidth / 8).
PrintBoxInsidePage ==
  PclStartDone =>
    LET W == U32(StartRas(arg).cupsWidth)
        H == U32(StartRas(arg).cupsHeight)
    IN  /\ ULess(res.box.left, res.box.right)
        /\ ULessEq(res.box.right, W)
        /\ ULess(res.box.top, res.box.bottom)
        /\ ULessEq(res.box.bottom, H)
        /\ ULessEq(U32(1), res.box.out_length)
        /\ ULessEq(res.box.out_length, UDiv(UAdd(W, U32(7)), 8))

\* What holds on every page as wide as its print box asks: the box is
\* inside the page, and ras holds the same numbers.
PrintBoxInsideWidePage ==
  (PclStartDone
     /\ (StartRas(arg).PageSize[2] = 842
           => StartRas(arg).cupsWidth >= 8 * arg.dpi[1])) =>
    /\ PrintBoxInsidePage
    /\ res.box.left = res.ras.left /\ res.box.right = res.ras.right
    /\ res.box.top = res.ras.top /\ res.box.bottom = res.ras.bottom
    /\ res.box.out_length = U32(res.ras.out_length)

-----------------------------------------------------------------------------
(* The page count of the headers.                                          *)

\* The job has run to its end: xform_document has returned 0.
Completed == IsJob /\ status = Returned(0)

\* C27: when a job completes, the TotalPageCount that xform_setup put in
\* the front and back headers (copies times the pages, one more page per
\* copy when copies > 1, the pages are odd and the job is two-sided) is the
\* number of start_page calls and of end_page calls made, the blank
\* padding pages included.
TotalPageCountMatchesPages ==
  Completed =>
    /\ ras.TotalPageCount = Len(SelectSeq(calls, IsStartPage))
    /\ ras.TotalPageCount = Len(EndedPages)
    /\ ras.TotalPageCount =
         ras.copies * (IF ras.copies > 1 /\ Pages(job) % 2 = 1 /\ ras.Duplex
                       THEN Pages(job) + 1 ELSE Pages(job))
    /\ \A i \in 1..Len(sink) :
         IsHeader(sink[i]) => sink[i].n = ras.TotalPageCount

\* Two duplex copies of three pages have been written: eight pages, two of
\* them padding.
TotalPageCountWitness ==
  /\ Completed
  /\ ras.copies = 2 /\ Pages(job) = 3 /\ ras.Duplex
  /\ ~IsPcl(ras)
  /\ ras.TotalPageCount = 8
  /\ Len(EndedPages) = 8

-----------------------------------------------------------------------------
(* The band loop and the band buffer.                                      *)

\* The loop of lines 1816-1870 or of lines 2015-2065 is running.
InBandLoop == IsJob /\ pc \in {"line", "image_line"}

\* write_line has just been called from a band loop, for line y - 1.
BandLineWritten ==
  InBandLoop /\ Len(calls) > 0 /\ LastCall.fn = "write_line"

\* start_page has just been called for a page that is rendered.
BandPageStarted ==
  InBandLoop /\ Len(calls) > 0 /\ LastCall.fn = "start_page"

\* C28: at every write_line call of a band loop, band_starty <= y <
\* band_endy <= bottom and band_endy - band_starty <= band_height, so the
\* row y - band_starty is a row of the band buffer and the line pointer is
\* inside the buffer; band_starty and band_endy are 0 when a page starts,
\* so the first line of every page is rendered afresh.
BandRowInsideBuffer ==
  /\ BandLineWritten =>
       LET ly == LastCall.a
       IN  /\ ly = y - 1
           /\ band_starty <= ly
           /\ ly < band_endy
           /\ band_endy <= UInt(ras.bottom)
           /\ band_endy - band_starty <= ras.band_height
           /\ ly - band_starty < ras.band_height
           /\ ly - band_starty + 1 \in DOMAIN band_buffer
           /\ Len(band_buffer) = ras.band_height
           /\ UInt(ras.left) * ras.band_bpp < ras.band_size
           /\ Len(band_buffer[ly - band_starty + 1]) = ras.band_size
  /\ BandPageStarted =>
       /\ band_starty = 0
       /\ band_endy = 0
       /\ y >= band_endy
  /\ IsJob =>
       \A i \in 1..(Len(calls) - 1) :
         (calls[i].fn = "start_page" /\ calls[i + 1].fn # "end_page"
            /\ calls[i].a <= Pages(job)) =>
           /\ calls[i + 1].fn \in RenderFns
           /\ calls[i + 1].a = UInt(ras.top)

\* The last line of the second page has been written from the page's second
\* band, which is shorter than the band buffer.
BandRowWitness ==
  /\ BandLineWritten
  /\ page = 2
  /\ band_starty > UInt(ras.top)
  /\ band_endy - band_starty < ras.band_height
  /\ y = band_endy
  /\ band_endy = UInt(ras.bottom)

-----------------------------------------------------------------------------
(* The progress counters of a job.                                         *)

\* Lines 1750-1753: the job-media-sheets value announced before start_job.
JobMediaSheets(pages, Duplex) == IF Duplex THEN (pages + 1) \div 2 ELSE pages

\* Line 1747: the job-impressions value announced before start_job.
JobImpressions(pages) == pages

\* A PDF job of one copy has passed xform_setup.
SingleCopyPdf ==
  IsJob /\ job.informat = PDF /\ pc # "setup" /\ err = NULL_ERR
        /\ ras.copies = 1

\* C30: in a PDF job of one copy, job-impressions-completed is the number
\* of end_page calls made so far, and when the job completes it is the page
\* count and the last job-media-sheets-completed is the job-media-sheets
\* value announced at the start: the page count of a one-sided job, (pages
\* + 1) / 2 of a two-sided one, whether the page count is odd or even.
ProgressCountersReachAnnounced ==
  SingleCopyPdf =>
    /\ impressions = Len(EndedPages)
    /\ Completed =>
         /\ impressions = JobImpressions(Pages(job))
         /\ media_sheets = JobMediaSheets(Pages(job), ras.Duplex)

\* What holds of the counters: the impressions are counted page by page,
\* and the sheets reach the announced value when the job is one-sided or
\* its page count is even; a two-sided job of an odd page count ends one
\* sheet short, its last front side never being counted.
ProgressCountersButLastSheet ==
  SingleCopyPdf =>
    /\ impressions = Len(EndedPages)
    /\ Completed =>
         /\ impressions = JobImpressions(Pages(job))
         /\ media_sheets =
              IF ras.Duplex /\ Pages(job) % 2 = 1
              THEN JobMediaSheets(Pages(job), ras.Duplex) - 1
              ELSE JobMediaSheets(Pages(job), ras.Duplex)

\* A two-sided job of three pages and one copy has completed.
ProgressWitness ==
  /\ SingleCopyPdf
  /\ Completed
  /\ ras.Duplex
  /\ Pages(job) = 3
  /\ impressions = 3

====
